---- MODULE Spec2Model ----
(***************************************************************************)
(* Portfolio ledger and derived positions.                                 *)
(*                                                                         *)
(* The Python layer (persistence/crud/portfolio_crud.py over               *)
(* persistence/database/connection.py) issues one SQL statement per call,  *)
(* each on its own connection that commits on success and rolls back on    *)
(* an exception.  The positions table is maintained by the database:       *)
(* a row trigger (trigger_recalculate_position) calls the stored function  *)
(* recalculate_position(ticker) inside the statement's transaction.  The   *)
(* stored function and the trigger are not part of the Python sources;     *)
(* they are modelled from the design specification (section 4.1, 4.2) and  *)
(* from what database/test_db_setup.py observes of them.                   *)
(***************************************************************************)
EXTENDS Integers, Sequences, FiniteSets, TLC

VARIABLES
    ledger,      \* committed rows of table transactions (a set of records)
    positions,   \* committed rows of table positions: ticker -> <<>> or <<row>>
    nextId,      \* next transaction identity (ids are never reused)
    last,        \* the last call and what it returned to its caller
    issued,      \* the TransactionCreate inputs accepted so far, in call order
    conns        \* the open connections and calls in flight of concurrent callers

vars == <<ledger, positions, nextId, last, issued, conns>>

(***************************************************************************)
(* Bounds of the model.                                                    *)
(***************************************************************************)
MaxTx == 2        \* transactions ever inserted in one behaviour
MaxLen == 3       \* rows of a ledger drawn for the fold specifications

(***************************************************************************)
(* Decimals are exact rationals [n, d] in lowest terms with d > 0.         *)
(***************************************************************************)
Abs(x) == IF x < 0 THEN -x ELSE x

RECURSIVE GCD(_, _)
GCD(a, b) == IF b = 0 THEN a ELSE GCD(b, a % b)

Rat(n, d) ==
    LET s == IF d < 0 THEN -1 ELSE 1
        g == GCD(Abs(n), Abs(d))
    IN  [n |-> (s * n) \div g, d |-> (s * d) \div g]

Dec(i) == [n |-> i, d |-> 1]
Zero == Dec(0)

RAdd(x, y) == Rat(x.n * y.d + y.n * x.d, x.d * y.d)
RSub(x, y) == Rat(x.n * y.d - y.n * x.d, x.d * y.d)
RMul(x, y) == Rat(x.n * y.n, x.d * y.d)
RDiv(x, y) == Rat(x.n * y.d, x.d * y.n)
RLt(x, y) == x.n * y.d < y.n * x.d
RPos(x) == x.n > 0
RNeg(x) == x.n < 0

(***************************************************************************)
(* Optional values: None is <<>>, a present value v is <<v>>.              *)
(***************************************************************************)
None == <<>>
Some(v) == <<v>>
IsSome(o) == Len(o) = 1
Val(o) == o[1]

(***************************************************************************)
(* Values of the model.  Tickers and type names reach the CRUD layer in    *)
(* the caller's letter case; Upper models str.upper() on them.             *)
(***************************************************************************)
Upper(s) ==
    CASE s = "aapl" -> "AAPL"
      [] s = "msft" -> "MSFT"
      [] s = "buy"  -> "BUY"
      [] s = "sell" -> "SELL"
      [] OTHER      -> s

TransactionTypes == {"BUY", "SELL", "DIVIDEND", "SPLIT"}
InputTickers == {"aapl", "MSFT"}
OtherSpellings == {"msft"}
Tickers == {Upper(t) : t \in InputTickers}
AllTickers == InputTickers \cup Tickers \cup OtherSpellings
Dates == {1, 2}

One == Dec(1)
Tenth == Rat(1, 10)

\* Defaults of TransactionCreate.
DefaultCommission == 0
DefaultMultiplier == One

\* TransactionCreate: the fields the position derivation reads, with the
\* defaults of the pydantic model (commission 0.00, fractional_multiplier 1.0).
TransactionCreate(tk, ty, q, c, d, com, m) ==
    [ticker |-> tk, transaction_type |-> ty, quantity |-> q,
     cost_per_share |-> c, transaction_date |-> d, commission |-> com,
     fractional_multiplier |-> m]

\* The parameter tuple of the INSERT: ticker and type are upper-cased,
\* every other field is stored as given.
\* Variant of the INSERT parameters: the ticker is stored as supplied.
InsertParamsTickerAsGiven(tx) ==
    [tx EXCEPT !.transaction_type = Upper(tx.transaction_type)]

\* Variants of the INSERT parameters: one column is left to its default.
InsertParamsNoDate(tx) ==
    [tx EXCEPT !.ticker = Upper(tx.ticker),
               !.transaction_type = Upper(tx.transaction_type),
               !.transaction_date = 1]

InsertParamsNoCommission(tx) ==
    [tx EXCEPT !.ticker = Upper(tx.ticker),
               !.transaction_type = Upper(tx.transaction_type),
               !.commission = DefaultCommission]

InsertParamsNoType(tx) ==
    [tx EXCEPT !.ticker = Upper(tx.ticker),
               !.transaction_type = "BUY"]

InsertParamsNoMultiplier(tx) ==
    [tx EXCEPT !.ticker = Upper(tx.ticker),
               !.transaction_type = Upper(tx.transaction_type),
               !.fractional_multiplier = DefaultMultiplier]

InsertParams(tx) ==
    [tx EXCEPT !.ticker = Upper(tx.ticker),
               !.transaction_type = Upper(tx.transaction_type)]

\* The row the INSERT stores: the parameters plus the generated identity
\* (created_at follows the identity, so the identity is the insertion order).
NewRow(id, tx) ==
    [id |-> id] @@ InsertParams(tx)

(***************************************************************************)
(* The position derivation: a fold over one ticker's rows ordered by       *)
(* transaction_date, ties broken by insertion order.                       *)
(***************************************************************************)
RowsOf(rows, t) == {r \in rows : r.ticker = t}

Before(a, b) ==
    \/ a.transaction_date < b.transaction_date
    \/ a.transaction_date = b.transaction_date /\ a.id < b.id

Earliest(rows) == CHOOSE r \in rows : \A o \in rows : o = r \/ Before(r, o)

EffectiveShares(r) == RMul(Dec(r.quantity), r.fractional_multiplier)

AvgCost(q, cb) == IF RPos(q) THEN RDiv(cb, q) ELSE Zero

FoldStart == [quantity |-> Zero, cost_basis |-> Zero, warning |-> FALSE]

ApplyBuy(acc, r) ==
    [acc EXCEPT
        !.quantity = RAdd(acc.quantity, EffectiveShares(r)),
        !.cost_basis = RAdd(acc.cost_basis,
                            RAdd(RMul(EffectiveShares(r), Dec(r.cost_per_share)),
                                 Dec(r.commission)))]

ApplySell(acc, r) ==
    LET q == RSub(acc.quantity, EffectiveShares(r))
    IN  [quantity |-> q,
         cost_basis |-> RSub(acc.cost_basis,
                             RMul(EffectiveShares(r),
                                  AvgCost(acc.quantity, acc.cost_basis))),
         warning |-> acc.warning \/ RNeg(q)]

\* The split ratio is carried as quantity : cost_per_share (2-for-1 is
\* quantity 2, cost_per_share 1); the cost basis is unchanged.
ApplySplit(acc, r) ==
    IF r.cost_per_share > 0 /\ r.quantity > 0
    THEN [acc EXCEPT !.quantity =
              RMul(acc.quantity, Rat(r.quantity, r.cost_per_share))]
    ELSE acc

ApplyTx(acc, r) ==
    CASE r.transaction_type = "BUY"   -> ApplyBuy(acc, r)
      [] r.transaction_type = "SELL"  -> ApplySell(acc, r)
      [] r.transaction_type = "SPLIT" -> ApplySplit(acc, r)
      [] OTHER                        -> acc

RECURSIVE FoldRows(_, _)
FoldRows(acc, rows) ==
    IF rows = {} THEN acc
    ELSE LET r == Earliest(rows)
         IN  FoldRows(ApplyTx(acc, r), rows \ {r})

Fold(rows) == FoldRows(FoldStart, rows)

(***************************************************************************)
(* The database side.  A database value is [ledger, positions].            *)
(***************************************************************************)
DB == [ledger |-> ledger, positions |-> positions]

PositionRow(t, f, price) ==
    [ticker |-> t,
     current_quantity |-> f.quantity,
     avg_cost_per_share |-> AvgCost(f.quantity, f.cost_basis),
     total_cost_basis |-> f.cost_basis,
     current_price |-> price,
     current_market_value |->
         IF IsSome(price) THEN Some(RMul(f.quantity, Val(price))) ELSE None,
     unrealized_gain_loss |->
         IF IsSome(price)
         THEN Some(RSub(RMul(f.quantity, Val(price)), f.cost_basis))
         ELSE None]

\* Stored function recalculate_position(ticker): the position of a ticker is
\* recomputed from all its rows.  No row of the ticker: the position row is
\* removed.  A position row is created the first time the quantity is not
\* zero, and an existing row keeps its market price.
RecalcRow(old, t, rows) ==
    IF rows = {} THEN None
    ELSE LET f == Fold(rows)
         IN  IF IsSome(old)
             THEN Some(PositionRow(t, f, Val(old).current_price))
             ELSE IF f.quantity = Zero THEN None
                  ELSE Some(PositionRow(t, f, None))

SqlRecalculatePosition(db, t) ==
    [db EXCEPT !.positions[t] = RecalcRow(@, t, RowsOf(db.ledger, t))]

RECURSIVE RecalcEach(_, _)
RecalcEach(db, ts) ==
    IF ts = {} THEN db
    ELSE LET t == CHOOSE x \in ts : TRUE
         IN  RecalcEach(SqlRecalculatePosition(db, t), ts \ {t})

\* Row trigger trigger_recalculate_position: after INSERT, UPDATE or DELETE of
\* a transactions row, the tickers of the old and of the new row are
\* recalculated, inside the statement's transaction.
TriggerRecalculatePosition(db, touched) == RecalcEach(db, touched)

\* One statement run on a connection: the resulting database as the
\* connection sees it, whether the statement raised, and the row count.
\* failAt says where a storage failure strikes: "none", or "recalc" (the
\* row change is done, the recalculation raises).
Outcome(db, raised, n) == [db |-> db, raised |-> raised, rowcount |-> n]

\* A value the transaction_type enum of the database does not have makes
\* the statement raise.
InvalidEnum(ty) == ty \notin TransactionTypes

SqlInsert(db, row, failAt) ==
    LET w == [db EXCEPT !.ledger = @ \cup {row}]
    IN  IF InvalidEnum(row.transaction_type) THEN Outcome(db, TRUE, 0)
        ELSE IF failAt = "recalc" THEN Outcome(w, TRUE, 0)
        ELSE Outcome(TriggerRecalculatePosition(w, {row.ticker}), FALSE, 1)

\* Variant: the DELETE names the ticker of the row instead of its id.
SqlDeleteByTicker(db, id, failAt) ==
    LET hit == {r \in db.ledger : \E o \in db.ledger : o.id = id /\ r.ticker = o.ticker}
        w == [db EXCEPT !.ledger = @ \ hit]
    IN  IF hit = {} THEN Outcome(db, FALSE, 0)
        ELSE IF failAt = "recalc" THEN Outcome(w, TRUE, 0)
        ELSE Outcome(TriggerRecalculatePosition(w, {r.ticker : r \in hit}),
                     FALSE, Cardinality(hit))

SqlDelete(db, id, failAt) ==
    LET hit == {r \in db.ledger : r.id = id}
        w == [db EXCEPT !.ledger = @ \ hit]
    IN  IF hit = {} THEN Outcome(db, FALSE, 0)
        ELSE IF failAt = "recalc" THEN Outcome(w, TRUE, 0)
        ELSE Outcome(TriggerRecalculatePosition(w, {r.ticker : r \in hit}),
                     FALSE, Cardinality(hit))

\* Variant: the quantity column is written even when it is not supplied.
SetColumnsWithQuantity(r, sets) ==
    [r EXCEPT
        !.ticker = IF IsSome(sets.ticker) THEN Val(sets.ticker) ELSE @,
        !.transaction_type =
            IF IsSome(sets.transaction_type) THEN Val(sets.transaction_type) ELSE @,
        !.quantity = IF IsSome(sets.quantity) THEN Val(sets.quantity) ELSE 0,
        !.cost_per_share =
            IF IsSome(sets.cost_per_share) THEN Val(sets.cost_per_share) ELSE @,
        !.transaction_date =
            IF IsSome(sets.transaction_date) THEN Val(sets.transaction_date) ELSE @]

\* UPDATE transactions SET <the supplied columns> WHERE id = ...: sets holds
\* one optional value per column, None for a column not in the SET clause.
SetColumns(r, sets) ==
    [r EXCEPT
        !.ticker = IF IsSome(sets.ticker) THEN Val(sets.ticker) ELSE @,
        !.transaction_type =
            IF IsSome(sets.transaction_type) THEN Val(sets.transaction_type) ELSE @,
        !.quantity = IF IsSome(sets.quantity) THEN Val(sets.quantity) ELSE @,
        !.cost_per_share =
            IF IsSome(sets.cost_per_share) THEN Val(sets.cost_per_share) ELSE @,
        !.transaction_date =
            IF IsSome(sets.transaction_date) THEN Val(sets.transaction_date) ELSE @]

\* Variant: after an UPDATE only the ticker of the new row is recalculated.
SqlUpdateNewTickerOnly(db, id, sets, failAt) ==
    LET hit == {r \in db.ledger : r.id = id}
        w == [db EXCEPT !.ledger = (@ \ hit) \cup {SetColumns(r, sets) : r \in hit}]
    IN  IF IsSome(sets.transaction_type) /\ InvalidEnum(Val(sets.transaction_type))
        THEN Outcome(db, TRUE, 0)
        ELSE IF hit = {} THEN Outcome(db, FALSE, 0)
        ELSE IF failAt = "recalc" THEN Outcome(w, TRUE, 0)
        ELSE Outcome(TriggerRecalculatePosition(w,
                        {SetColumns(r, sets).ticker : r \in hit}),
                     FALSE, Cardinality(hit))

SqlUpdate(db, id, sets, failAt) ==
    LET hit == {r \in db.ledger : r.id = id}
        w == [db EXCEPT !.ledger = (@ \ hit) \cup {SetColumns(r, sets) : r \in hit}]
    IN  IF IsSome(sets.transaction_type) /\ InvalidEnum(Val(sets.transaction_type))
        THEN Outcome(db, TRUE, 0)
        ELSE IF hit = {} THEN Outcome(db, FALSE, 0)
        ELSE IF failAt = "recalc" THEN Outcome(w, TRUE, 0)
        ELSE Outcome(TriggerRecalculatePosition(w,
                        {r.ticker : r \in hit}
                            \cup {SetColumns(r, sets).ticker : r \in hit}),
                     FALSE, Cardinality(hit))

SqlSelectRecalculate(db, t, failAt) ==
    IF failAt = "recalc" THEN Outcome(db, TRUE, 0)
    ELSE Outcome(SqlRecalculatePosition(db, t), FALSE, 1)

\* Variant: the UPDATE is an upsert, a missing position row is created.
SqlUpsertPosition(db, t, price, mv, ugl) ==
    Outcome([db EXCEPT !.positions[t] =
                Some([(IF IsSome(@) THEN Val(@) ELSE PositionRow(t, FoldStart, None))
                          EXCEPT !.current_price = Some(price),
                                 !.current_market_value = mv,
                                 !.unrealized_gain_loss = ugl])],
            FALSE, 1)

\* UPDATE positions SET current_price, current_market_value,
\* unrealized_gain_loss WHERE ticker = t
SqlUpdatePosition(db, t, price, mv, ugl) ==
    IF IsSome(db.positions[t])
    THEN Outcome([db EXCEPT !.positions[t] =
                     Some([Val(@) EXCEPT !.current_price = Some(price),
                                         !.current_market_value = mv,
                                         !.unrealized_gain_loss = ugl])],
                 FALSE, 1)
    ELSE Outcome(db, FALSE, 0)

(***************************************************************************)
(* DatabaseManager.get_connection: commit when the body returns, roll back *)
(* when it raises.  The value is the database other connections see next.  *)
(***************************************************************************)
\* Variant: the changes are committed whether or not the body raised.
GetConnectionAlwaysCommits(before, out) == out.db

GetConnection(before, out) == IF out.raised THEN before ELSE out.db

(***************************************************************************)
(* The CRUD layer: one action per call.  Each call runs its statement on   *)
(* a connection of its own, so its effect on the committed database is     *)
(* GetConnection of the statement's outcome.                               *)
(***************************************************************************)
Commit(db) ==
    /\ ledger' = db.ledger
    /\ positions' = db.positions

Result(op, ret, t) == [op |-> op, ret |-> ret, ticker |-> t]

FailPoints == {"none", "recalc"}

\* TransactionCRUD.create_transaction
CreateTransaction(tx, failAt) ==
    LET out == SqlInsert(DB, NewRow(nextId, tx), failAt)
    IN  /\ Commit(GetConnection(DB, out))
        /\ nextId' = IF out.raised THEN nextId ELSE nextId + 1

\* TransactionUpdate with every field unset.
NoUpdate ==
    [ticker |-> None, transaction_type |-> None, quantity |-> None,
     cost_per_share |-> None, transaction_date |-> None]

\* Variant: the ticker goes into the SET clause in the caller's letter case.
UpdateParamsAsGiven(updates) ==
    [updates EXCEPT
        !.transaction_type = IF IsSome(@) THEN Some(Upper(Val(@))) ELSE @]

\* The SET clause update_transaction builds: the supplied fields, ticker and
\* type upper-cased.
UpdateParams(updates) ==
    [updates EXCEPT
        !.ticker = IF IsSome(@) THEN Some(Upper(Val(@))) ELSE @,
        !.transaction_type = IF IsSome(@) THEN Some(Upper(Val(@))) ELSE @]

\* TransactionCRUD.update_transaction
UpdateTransaction(id, updates, failAt) ==
    /\ UNCHANGED nextId
    /\ IF updates = NoUpdate
       THEN UNCHANGED <<ledger, positions>>
       ELSE Commit(GetConnection(DB,
                SqlUpdate(DB, id, UpdateParams(updates), failAt)))

\* TransactionCRUD.delete_transaction
DeleteTransaction(id, failAt) ==
    /\ UNCHANGED nextId
    /\ Commit(GetConnection(DB, SqlDelete(DB, id, failAt)))

\* Variant: the lookup uses the ticker in the caller's letter case.
GetPositionByTickerAsGiven(db, ticker) == db.positions[ticker]

\* PositionCRUD.get_position_by_ticker
GetPositionByTicker(db, ticker) == db.positions[Upper(ticker)]

\* Variant: the query has no WHERE clause.
GetAllPositionsUnfiltered(db) ==
    {Val(db.positions[t]) : t \in {u \in AllTickers : IsSome(db.positions[u])}}

\* PositionCRUD.get_all_positions: the rows with current_quantity > 0
\* (ORDER BY ticker does not change which rows are returned).
GetAllPositions(db) ==
    {Val(db.positions[t]) : t \in {u \in AllTickers :
        /\ IsSome(db.positions[u])
        /\ RPos(Val(db.positions[u]).current_quantity)}}

\* The database after one call of recalculate_position that does not raise.
RecalcCall(db, ticker) ==
    GetConnection(db, SqlSelectRecalculate(db, Upper(ticker), "none"))

\* Variant: the query is given the ticker in the caller's letter case.
RecalculatePositionAsGiven(ticker, failAt) ==
    LET out == SqlSelectRecalculate(DB, ticker, failAt)
    IN  /\ Commit(GetConnection(DB, out))
        /\ UNCHANGED nextId
        /\ last' = Result("recalculate_position",
                          IF out.raised THEN "raise" ELSE "true", ticker)

\* PositionCRUD.recalculate_position: returns True unless the query raises.
RecalculatePosition(ticker, failAt) ==
    LET out == SqlSelectRecalculate(DB, Upper(ticker), failAt)
    IN  /\ Commit(GetConnection(DB, out))
        /\ UNCHANGED nextId
        /\ last' = Result("recalculate_position",
                          IF out.raised THEN "raise" ELSE "true", ticker)

\* Variant: the derived values are left unset, as when no position is read.
UpdatePositionMarketDataPriceOnly(ticker, price) ==
    LET out == SqlUpdatePosition(DB, Upper(ticker), price, None, None)
    IN  /\ Commit(GetConnection(DB, out))
        /\ UNCHANGED nextId
        /\ last' = Result("update_position_market_data",
                          IF out.rowcount > 0 THEN "true" ELSE "false", ticker)

\* PositionCRUD.update_position_market_data: the position is read, the
\* derived values are computed from it, and one UPDATE writes them.
MarketDataStatement(db, position, ticker, price) ==
    LET mv == IF IsSome(position)
              THEN Some(RMul(Val(position).current_quantity, price)) ELSE None
        ugl == IF IsSome(position)
               THEN Some(RSub(Val(mv), Val(position).total_cost_basis)) ELSE None
    IN  SqlUpdatePosition(db, Upper(ticker), price, mv, ugl)

UpdatePositionMarketData(ticker, price) ==
    LET out == MarketDataStatement(DB, GetPositionByTicker(DB, ticker), ticker, price)
    IN  /\ Commit(GetConnection(DB, out))
        /\ UNCHANGED nextId
        /\ last' = Result("update_position_market_data",
                          IF out.rowcount > 0 THEN "true" ELSE "false", ticker)

(***************************************************************************)
(* Spec: the ledger calls, one at a time.                                  *)
(***************************************************************************)
CostOn(d) == 100 * d

CreateInputs ==
    {TransactionCreate(tk, ty, q, CostOn(d), d,
                       DefaultCommission, DefaultMultiplier) :
        tk \in InputTickers, ty \in {"BUY", "SELL", "DIVIDEND"},
        q \in {5, 10}, d \in Dates}

UpdateInputs ==
    {NoUpdate}
    \cup {[NoUpdate EXCEPT !.ticker = Some(tk)] : tk \in InputTickers}
    \cup {[NoUpdate EXCEPT !.transaction_type = Some(ty)] :
            ty \in {"buy", "SELL", "DIVIDEND"}}
    \cup {[NoUpdate EXCEPT !.quantity = Some(q)] : q \in {5, 10}}
    \cup {[NoUpdate EXCEPT !.transaction_date = Some(d),
                           !.cost_per_share = Some(CostOn(d))] : d \in Dates}

TxIds == 1..MaxTx

NoPositions == [t \in AllTickers |-> None]

InitSideState ==
    /\ last = Result("init", "none", "")
    /\ issued = <<>>
    /\ conns = <<>>

Init ==
    /\ ledger = {}
    /\ positions = NoPositions
    /\ nextId = 1
    /\ InitSideState

Create ==
    /\ nextId <= MaxTx
    /\ \E tx \in CreateInputs, f \in FailPoints : CreateTransaction(tx, f)
Update ==
    \E id \in TxIds, u \in UpdateInputs, f \in FailPoints :
        UpdateTransaction(id, u, f)
Delete == \E id \in TxIds, f \in FailPoints : DeleteTransaction(id, f)

Next ==
    \/ Create /\ UNCHANGED <<last, issued, conns>>
    \/ Update /\ UNCHANGED <<last, issued, conns>>
    \/ Delete /\ UNCHANGED <<last, issued, conns>>

Spec == Init /\ [][Next]_vars

(***************************************************************************)
(* Properties of Spec.                                                     *)
(***************************************************************************)
\* A position p (None when there is no row) agrees with the fold of rows.
AgreesWithFold(p, rows) ==
    LET f == Fold(rows)
    IN  IF IsSome(p)
        THEN /\ rows # {}
             /\ Val(p).current_quantity = f.quantity
             /\ Val(p).total_cost_basis = f.cost_basis
        ELSE f.quantity = Zero /\ f.cost_basis = Zero

MatchesFold(p, rows) ==
    /\ AgreesWithFold(p, rows)
    /\ IsSome(p) =>
          Val(p).avg_cost_per_share =
              AvgCost(Fold(rows).quantity, Fold(rows).cost_basis)

\* C1: after any sequence of committed create / update / delete calls, with
\* no explicit recalculate call, the position every caller reads for a
\* ticker has current_quantity and total_cost_basis equal to the fold of the
\* ticker's current ledger rows in transaction_date order (no row counts as
\* quantity 0 and cost basis 0).  It holds in every state, so the first read
\* after a write observes it.
C1_PositionsFollowLedger ==
    \A tk \in InputTickers :
        AgreesWithFold(GetPositionByTicker(DB, tk), RowsOf(ledger, Upper(tk)))

\* A backdated row: inserted later, dated earlier than another row of the
\* ticker, with a position that is not zero.
C1_Witness ==
    \E a \in ledger, b \in ledger :
        /\ a.ticker = b.ticker /\ a.id < b.id
        /\ b.transaction_date < a.transaction_date
        /\ a.transaction_type = "BUY" /\ b.transaction_type = "SELL"
        /\ IsSome(positions[a.ticker])
        /\ Val(positions[a.ticker]).current_quantity # Zero

\* C9: a delete of a recorded transaction removes exactly that row and leaves
\* every position equal to the fold of the remaining rows; deleting
\* BUY 10@200 from {BUY 10@100, BUY 10@200} leaves quantity 10 at average
\* cost 100.
Remaining(id) == {r \in ledger : r.id # id}

IsBuy(r, q, c) ==
    /\ r.transaction_type = "BUY" /\ r.quantity = q /\ r.cost_per_share = c
    /\ r.fractional_multiplier = One /\ r.commission = 0

C9_DeleteRecomputes ==
    [][\A id \in TxIds :
          (DeleteTransaction(id, "none") /\ \E r \in ledger : r.id = id) =>
             /\ ledger' = Remaining(id)
             /\ \A t \in Tickers : MatchesFold(positions'[t], RowsOf(Remaining(id), t))
             /\ \A a \in ledger, b \in ledger :
                   (/\ b.id = id /\ a.ticker = b.ticker
                    /\ RowsOf(ledger, a.ticker) = {a, b}
                    /\ IsBuy(a, 10, 100) /\ IsBuy(b, 10, 200)) =>
                      /\ Val(positions'[a.ticker]).current_quantity = Dec(10)
                      /\ Val(positions'[a.ticker]).avg_cost_per_share = Dec(100)
      ]_vars

\* Both transactions were inserted, the BUY 10@200 is gone, and the position
\* stands at 10 shares at 100.
C9_Witness ==
    /\ nextId = 3
    /\ \E a \in ledger :
          /\ ledger = {a} /\ a.id = 1 /\ IsBuy(a, 10, 100)
          /\ IsSome(positions[a.ticker])
          /\ Val(positions[a.ticker]).current_quantity = Dec(10)
          /\ Val(positions[a.ticker]).avg_cost_per_share = Dec(100)

\* C10: get_all_positions lists a ticker exactly when the fold of its ledger
\* rows has a quantity above zero, and every listed row has
\* current_quantity > 0; a ticker whose shares have all been sold is not
\* listed.
C10_ClosedPositionsExcluded ==
    /\ \A p \in GetAllPositions(DB) : RPos(p.current_quantity)
    /\ \A t \in Tickers :
          (\E p \in GetAllPositions(DB) : p.ticker = t)
              <=> RPos(Fold(RowsOf(ledger, t)).quantity)

\* All shares of a ticker were sold: its row stands at quantity 0 and the
\* listing does not show it.
C10_Witness ==
    \E a \in ledger, b \in ledger :
        /\ a.ticker = b.ticker
        /\ a.transaction_type = "BUY" /\ b.transaction_type = "SELL"
        /\ a.quantity = b.quantity /\ Before(a, b)
        /\ IsSome(positions[a.ticker])
        /\ Val(positions[a.ticker]).current_quantity = Zero
        /\ \A p \in GetAllPositions(DB) : p.ticker # a.ticker

(***************************************************************************)
(* Further properties of Spec.                                             *)
(***************************************************************************)
\* The position rows, and the ledger rows, whose ticker is t in any letter
\* case.
PositionRowsOf(t) == {u \in AllTickers : Upper(u) = t /\ IsSome(positions[u])}

TxRowsOf(t) == {r \in ledger : Upper(r.ticker) = t}

\* C11: in every state a ticker has at most one position row; it has none
\* when the ledger holds no transaction of it (so deleting all of them
\* removes the row), and exactly one as soon as its only transaction is a
\* BUY (so the first BUY creates it with no further call).
C11_PositionRowLifecycle ==
    \A t \in Tickers :
        /\ Cardinality(PositionRowsOf(t)) <= 1
        /\ TxRowsOf(t) = {} => PositionRowsOf(t) = {}
        /\ (\E r \in ledger : TxRowsOf(t) = {r} /\ r.transaction_type = "BUY")
              => Cardinality(PositionRowsOf(t)) = 1

\* Two transactions were created; one ticker is left with its first BUY and
\* a position row, the other lost all its transactions and its row.
C11_Witness ==
    /\ nextId = 3
    /\ \E r \in ledger : ledger = {r} /\ r.transaction_type = "BUY"
                         /\ r.ticker = "AAPL"
    /\ IsSome(positions["AAPL"])
    /\ PositionRowsOf("MSFT") = {}


(***************************************************************************)
(* TxnSpec: two callers write at the same time.  Each call is a database   *)
(* transaction on its own connection: the statement changes rows that only *)
(* the connection sees, the row trigger recalculates the ticker, and       *)
(* get_connection commits or rolls back.  Isolation is read committed:     *)
(* the recalculation reads the committed rows and the connection's own.    *)
(* A row changed by an open transaction is locked against other writers,   *)
(* and recalculations of one ticker are serialized by a lock scoped to the *)
(* ticker, held until the transaction ends (design section 5).             *)
(***************************************************************************)
Conns == {"c1", "c2"}

Closed == {"idle", "committed", "rolledback"}

NewConn(pc) ==
    [pc |-> pc, kind |-> "none", ins |-> {}, del |-> {}, tickers |-> {},
     work |-> NoPositions, overlapped |-> FALSE]

InFlight(c) == conns[c].pc \notin Closed

\* Starting a statement on ticker set ts while another connection has an
\* open transaction on one of them marks both as overlapping.
Overlaps(c, ts) ==
    {o \in Conns \ {c} : InFlight(o) /\ conns[o].tickers \cap ts # {}}

Begin(c, cn) ==
    conns' = [o \in Conns |->
                 IF o = c
                 THEN [cn EXCEPT !.overlapped = Overlaps(c, cn.tickers) # {}]
                 ELSE IF o \in Overlaps(c, cn.tickers)
                      THEN [conns[o] EXCEPT !.overlapped = TRUE]
                      ELSE conns[o]]

\* The rows a connection sees: the committed rows and its own changes.
ViewOf(db, cn) ==
    [db EXCEPT !.ledger = {r \in @ : r.id \notin cn.del} \cup cn.ins]

\* create_transaction, up to the INSERT.
ExecuteInsert(c, tx) ==
    /\ conns[c].pc \in Closed
    /\ nextId <= MaxTx
    /\ nextId' = nextId + 1
    /\ Begin(c, [NewConn("changed") EXCEPT
                    !.kind = "insert",
                    !.ins = {NewRow(nextId, tx)},
                    !.tickers = {InsertParams(tx).ticker}])
    /\ UNCHANGED <<ledger, positions>>

RowLocked(c, id) == \E o \in Conns \ {c} : InFlight(o) /\ id \in conns[o].del

\* delete_transaction, up to the DELETE: it waits for a row another open
\* transaction has deleted; no matching row means no trigger and a commit of
\* nothing.
ExecuteDelete(c, id) ==
    /\ conns[c].pc \in Closed
    /\ ~RowLocked(c, id)
    /\ LET hit == {r \in ledger : r.id = id}
       IN  IF hit = {}
           THEN conns' = [conns EXCEPT ![c] = NewConn("committed")]
           ELSE Begin(c, [NewConn("changed") EXCEPT
                             !.kind = "delete",
                             !.del = {id},
                             !.tickers = {r.ticker : r \in hit}])
    /\ UNCHANGED <<ledger, positions, nextId>>

\* update_transaction, up to the UPDATE: no supplied field returns before any
\* statement; the UPDATE waits for a locked row like the DELETE; the trigger
\* covers the ticker of the old and of the new row.
ExecuteUpdate(c, id, updates) ==
    /\ conns[c].pc \in Closed
    /\ updates # NoUpdate
    /\ ~RowLocked(c, id)
    /\ LET hit == {r \in ledger : r.id = id}
           new == {SetColumns(r, UpdateParams(updates)) : r \in hit}
       IN  IF hit = {}
           THEN conns' = [conns EXCEPT ![c] = NewConn("committed")]
           ELSE Begin(c, [NewConn("changed") EXCEPT
                             !.kind = "update",
                             !.del = {id},
                             !.ins = new,
                             !.tickers = {r.ticker : r \in hit \cup new}])
    /\ UNCHANGED <<ledger, positions, nextId>>

\* Variant: recalculations of one ticker are not serialized.
NoTickerLock(c, ts) == TRUE

TickerLockFree(c, ts) ==
    \A o \in Conns \ {c} :
        conns[o].pc = "recalculated" => conns[o].tickers \cap ts = {}

\* The row trigger, inside the open transaction; failAt "recalc" is a
\* storage failure in the recalculation.
RunTrigger(c, failAt) ==
    /\ conns[c].pc = "changed"
    /\ TickerLockFree(c, conns[c].tickers)
    /\ conns' = [conns EXCEPT ![c] =
          IF failAt = "recalc" THEN [@ EXCEPT !.pc = "raised"]
          ELSE [@ EXCEPT
                  !.pc = "recalculated",
                  !.work = TriggerRecalculatePosition(
                               ViewOf(DB, conns[c]), conns[c].tickers).positions]]
    /\ UNCHANGED <<ledger, positions, nextId>>

\* What the connection's transaction would make visible.
Pending(db, cn) ==
    [ledger |-> ViewOf(db, cn).ledger,
     positions |-> [t \in AllTickers |->
                       IF t \in cn.tickers /\ cn.pc = "recalculated"
                       THEN cn.work[t] ELSE db.positions[t]]]

\* The end of the with-block of get_connection: commit, or roll back when
\* the body raised.
EndConnection(c) ==
    /\ conns[c].pc \in {"recalculated", "raised"}
    /\ Commit(GetConnection(DB,
          Outcome(Pending(DB, conns[c]), conns[c].pc = "raised", 0)))
    /\ conns' = [conns EXCEPT
                    ![c].pc = IF @ = "raised" THEN "rolledback" ELSE "committed",
                    ![c].work = NoPositions]
    /\ UNCHANGED nextId

TxnInputs ==
    {TransactionCreate(tk, "BUY", 10, 100, 1,
                       DefaultCommission, DefaultMultiplier) :
        tk \in InputTickers}

TxnUpdates ==
    {[NoUpdate EXCEPT !.quantity = Some(5)],
     [NoUpdate EXCEPT !.ticker = Some("msft")]}

TxnInit ==
    /\ ledger = {}
    /\ positions = NoPositions
    /\ nextId = 1
    /\ last = Result("init", "none", "")
    /\ issued = <<>>
    /\ conns = [c \in Conns |-> NewConn("idle")]

TxnNext ==
    \/ \E c \in Conns, tx \in TxnInputs :
          ExecuteInsert(c, tx) /\ UNCHANGED <<last, issued>>
    \/ \E c \in Conns, id \in TxIds :
          ExecuteDelete(c, id) /\ UNCHANGED <<last, issued>>
    \/ \E c \in Conns, id \in TxIds, u \in TxnUpdates :
          ExecuteUpdate(c, id, u) /\ UNCHANGED <<last, issued>>
    \/ \E c \in Conns, f \in FailPoints :
          RunTrigger(c, f) /\ UNCHANGED <<last, issued>>
    \/ \E c \in Conns : EndConnection(c) /\ UNCHANGED <<last, issued>>

TxnSpec == TxnInit /\ [][TxnNext]_vars

(***************************************************************************)
(* Properties of TxnSpec.                                                  *)
(***************************************************************************)
\* C2: a write and its recalculation are one unit.  In every state the
\* committed ledger and the committed positions agree (no ledger change is
\* visible without its position update, no position update without its
\* ledger change), and a transaction whose recalculation failed leaves none
\* of its rows in the ledger.
C2_WriteAndRecalcAtomic ==
    /\ \A t \in Tickers : MatchesFold(positions[t], RowsOf(ledger, t))
    /\ \A c \in Conns :
          (conns[c].pc = "rolledback" /\ conns[c].kind = "insert") =>
              conns[c].ins \cap ledger = {}

\* The recalculation triggered by an insert failed and the insert was rolled
\* back, while the ledger holds another committed row of the same ticker.
C2_Witness ==
    \E c \in Conns :
        /\ conns[c].pc = "rolledback"
        /\ conns[c].kind = "insert"
        /\ \E r \in ledger : r.ticker \in conns[c].tickers

RecalcInputs ==
    {TransactionCreate("aapl", "BUY", 10, 100, 1, DefaultCommission, DefaultMultiplier),
     TransactionCreate("aapl", "SELL", 10, 100, 2, DefaultCommission, DefaultMultiplier),
     TransactionCreate("aapl", "DIVIDEND", 5, 100, 2, DefaultCommission, DefaultMultiplier),
     TransactionCreate("MSFT", "BUY", 5, 200, 1, DefaultCommission, DefaultMultiplier)}

SeqsUpTo(S, n) == UNION {[1..k -> S] : k \in 0..n}

LedgerOf(txs) == {NewRow(i, txs[i]) : i \in 1..Len(txs)}

Prices == {Dec(150)}

\* A position row as an earlier state of the ledger left it.
StaleRows(t) ==
    {None,
     Some(PositionRow(t, [quantity |-> Dec(7), cost_basis |-> Dec(33)], None)),
     Some(PositionRow(t, [quantity |-> Zero, cost_basis |-> Zero], Some(Dec(150))))}

RecalcInit ==
    /\ \E txs \in SeqsUpTo(RecalcInputs, MaxLen) :
          /\ ledger = LedgerOf(txs)
          /\ nextId = Len(txs) + 1
    /\ \E a \in StaleRows("AAPL"), m \in StaleRows("MSFT") :
          positions = [NoPositions EXCEPT !["AAPL"] = a, !["MSFT"] = m]
    /\ InitSideState

RecalcNext ==
    \/ \E t \in InputTickers, f \in FailPoints :
          RecalculatePosition(t, f) /\ UNCHANGED <<issued, conns>>
    \/ \E t \in InputTickers, p \in Prices :
          UpdatePositionMarketData(t, p) /\ UNCHANGED <<issued, conns>>

RecalcSpec == RecalcInit /\ [][RecalcNext]_vars

FoldTicker == "aapl"

Buy10At100 == TransactionCreate(FoldTicker, "BUY", 10, 100, 1, DefaultCommission, DefaultMultiplier)
Buy10At200 == TransactionCreate(FoldTicker, "BUY", 10, 200, 1, DefaultCommission, DefaultMultiplier)
BuyTenth   == TransactionCreate(FoldTicker, "BUY", 10, 100, 1, 5, Tenth)
Sell5      == TransactionCreate(FoldTicker, "SELL", 5, 100, 1, DefaultCommission, DefaultMultiplier)
SellTenth  == TransactionCreate(FoldTicker, "SELL", 10, 100, 1, DefaultCommission, Tenth)
Split2For1 == TransactionCreate(FoldTicker, "SPLIT", 2, 1, 1, DefaultCommission, DefaultMultiplier)

On(tx, d) == [tx EXCEPT !.transaction_date = d]

FoldInputs ==
    {On(tx, d) : tx \in {Buy10At100, Buy10At200, BuyTenth, Sell5, SellTenth,
                         Split2For1},
                 d \in Dates}

FoldCreate(tx, failAt) ==
    /\ Len(issued) < MaxLen
    /\ CreateTransaction(tx, failAt)
    /\ issued' = IF nextId' = nextId THEN issued ELSE Append(issued, tx)
    /\ UNCHANGED <<last, conns>>

FoldInit == Init

FoldNext == \E tx \in FoldInputs, f \in FailPoints : FoldCreate(tx, f)

FoldSpec == FoldInit /\ [][FoldNext]_vars

FoldPosition == GetPositionByTicker(DB, FoldTicker)

EmptyDB == [ledger |-> {}, positions |-> NoPositions]

\* The database after the transactions of txs are created one by one, in
\* the order of txs, starting from an empty database.
RECURSIVE InsertAll(_, _, _)
InsertAll(db, txs, id) ==
    IF txs = <<>> THEN db
    ELSE InsertAll(GetConnection(db, SqlInsert(db, NewRow(id, Head(txs)), "none")),
                   Tail(txs), id + 1)

Perms(n) == {f \in [1..n -> 1..n] : \A i, j \in 1..n : f[i] = f[j] => i = j}

Reordered(txs, f) == [i \in 1..Len(txs) |-> txs[f[i]]]

Chronological(txs) ==
    \A i, j \in 1..Len(txs) :
        i < j => txs[i].transaction_date <= txs[j].transaction_date

DistinctDates(txs) ==
    \A i, j \in 1..Len(txs) :
        i # j => txs[i].transaction_date # txs[j].transaction_date

\* The position of the ticker after an explicit recalculate_position call.
Recalculated(db) == GetPositionByTicker(RecalcCall(db, FoldTicker), FoldTicker)

SameAsChronological(txs) ==
    \A f \in Perms(Len(txs)) :
        Chronological(Reordered(txs, f)) =>
            Recalculated(InsertAll(EmptyDB, Reordered(txs, f), 1)) = Recalculated(DB)

SharesOf(tx) == RMul(Dec(tx.quantity), tx.fractional_multiplier)

CostOf(tx) ==
    RAdd(RMul(SharesOf(tx), Dec(tx.cost_per_share)), Dec(tx.commission))

RECURSIVE SumShares(_)
SumShares(txs) ==
    IF txs = <<>> THEN Zero ELSE RAdd(SharesOf(Head(txs)), SumShares(Tail(txs)))

RECURSIVE SumCost(_)
SumCost(txs) ==
    IF txs = <<>> THEN Zero ELSE RAdd(CostOf(Head(txs)), SumCost(Tail(txs)))

OnlyOfType(txs, ty) ==
    /\ txs # <<>>
    /\ \A i \in 1..Len(txs) : txs[i].transaction_type = ty

Undated(txs) == [i \in 1..Len(txs) |-> On(txs[i], 1)]

\* C6: when all the transactions of a ticker are BUYs, its position has
\* quantity = the sum of quantity x fractional_multiplier, cost basis = the
\* sum of quantity x fractional_multiplier x cost_per_share + commission, and
\* average cost = cost basis / quantity; BUY 10 @ 100 and BUY 10 @ 200
\* without commission give quantity 20, average cost 150, cost basis 3000.
C6_AverageCostOnBuy ==
    /\ OnlyOfType(issued, "BUY") =>
          /\ IsSome(FoldPosition)
          /\ Val(FoldPosition).current_quantity = SumShares(issued)
          /\ Val(FoldPosition).total_cost_basis = SumCost(issued)
          /\ Val(FoldPosition).avg_cost_per_share =
                RDiv(SumCost(issued), SumShares(issued))
    /\ Undated(issued) = <<Buy10At100, Buy10At200>> =>
          /\ Val(FoldPosition).current_quantity = Dec(20)
          /\ Val(FoldPosition).avg_cost_per_share = Dec(150)
          /\ Val(FoldPosition).total_cost_basis = Dec(3000)

\* Two BUYs at different prices, one of them with a commission and a
\* fractional multiplier.
C6_Witness ==
    /\ Len(issued) = 2
    /\ OnlyOfType(issued, "BUY")
    /\ \E i \in 1..2 : issued[i].commission > 0
    /\ \E i \in 1..2 : issued[i].cost_per_share = 200
    /\ IsSome(FoldPosition)

\* tx is dated no earlier than every row of its ticker, so the fold applies
\* it last.
AppliedLast(tx) ==
    \A r \in RowsOf(ledger, Upper(tx.ticker)) :
        r.transaction_date <= tx.transaction_date

HeldQuantity == IF IsSome(FoldPosition) THEN Val(FoldPosition).current_quantity ELSE Zero

\* C7: a SELL of s shares that the fold applies last, on a position holding
\* q >= s shares at average cost a, leaves quantity q - s and cost basis
\* reduced by s x a, and leaves the average cost at a while shares remain;
\* after BUY 10 @ 100 and BUY 10 @ 200, SELL 5 gives quantity 15 and cost
\* basis 2250.
C7_SellProportional ==
    [][\A tx \in FoldInputs :
          (/\ tx.transaction_type = "SELL"
           /\ FoldCreate(tx, "none")
           /\ AppliedLast(tx)
           /\ IsSome(FoldPosition)
           /\ ~RLt(Val(FoldPosition).current_quantity, SharesOf(tx)))
          => LET old == Val(FoldPosition)
                 new == Val(FoldPosition')
                 s   == SharesOf(tx)
             IN  /\ IsSome(FoldPosition')
                 /\ new.current_quantity = RSub(old.current_quantity, s)
                 /\ new.total_cost_basis =
                        RSub(old.total_cost_basis, RMul(s, old.avg_cost_per_share))
                 /\ RPos(new.current_quantity) =>
                        new.avg_cost_per_share = old.avg_cost_per_share
                 /\ (Undated(issued) = <<Buy10At100, Buy10At200>> /\ tx.quantity = 5
                     /\ tx.fractional_multiplier = One) =>
                        /\ new.current_quantity = Dec(15)
                        /\ new.total_cost_basis = Dec(2250)]_vars

\* SELL 5 was applied last on BUY 10 @ 100 and BUY 10 @ 200.
C7_Witness ==
    /\ Len(issued) = 3
    /\ Undated(SubSeq(issued, 1, 2)) = <<Buy10At100, Buy10At200>>
    /\ On(issued[3], 1) = Sell5
    /\ issued[3].transaction_date = 2
    /\ IsSome(FoldPosition)
    /\ Val(FoldPosition).current_quantity = Dec(15)

\* C8: a BUY (SELL) row that the fold applies last raises (lowers)
\* current_quantity by exactly quantity x fractional_multiplier; a BUY with
\* quantity 10 and fractional_multiplier 0.1 on an empty ledger gives
\* exactly 1 share.
C8_FractionalShares ==
    [][\A tx \in FoldInputs :
          (/\ tx.transaction_type \in {"BUY", "SELL"}
           /\ FoldCreate(tx, "none")
           /\ AppliedLast(tx))
          => /\ IsSome(FoldPosition')
             /\ Val(FoldPosition').current_quantity =
                    IF tx.transaction_type = "BUY"
                    THEN RAdd(HeldQuantity, SharesOf(tx))
                    ELSE RSub(HeldQuantity, SharesOf(tx))
             /\ (ledger = {} /\ tx.transaction_type = "BUY" /\ tx.quantity = 10
                 /\ tx.fractional_multiplier = Tenth) =>
                    Val(FoldPosition').current_quantity = Dec(1)]_vars

\* A single BUY with quantity 10 and fractional_multiplier 0.1 holds 1 share.
C8_Witness ==
    /\ Len(issued) = 1
    /\ issued[1].transaction_type = "BUY"
    /\ issued[1].quantity = 10
    /\ issued[1].fractional_multiplier = Tenth
    /\ IsSome(FoldPosition)
    /\ Val(FoldPosition).current_quantity = Dec(1)

(***************************************************************************)
(* The operations layer (portfolio_operations): every call answers with an *)
(* OperationResponse.  The message is kept without the interpolated id or  *)
(* ticker.                                                                 *)
(***************************************************************************)
OperationResponse(success, message, data) ==
    [success |-> success, message |-> message, data |-> data]

(***************************************************************************)
(* RecalcAllSpec: recalculate_all_positions on a ledger whose position     *)
(* rows need not agree with it.                                            *)
(***************************************************************************)
\* SELECT DISTINCT ticker FROM transactions
DistinctTickers(db) == {r.ticker : r \in db.ledger}

\* The rows of the query in some order (the query has no ORDER BY).
Orders(S) == {o \in [1..Cardinality(S) -> S] : \A t \in S : \E i \in DOMAIN o : o[i] = t}

\* The loop of recalculate_all_positions: each recalculate_position commits
\* on its own connection; the first one that raises ends the loop.
RECURSIVE RecalcInOrder(_, _, _)
RecalcInOrder(db, order, failing) ==
    IF order = <<>> THEN Outcome(db, FALSE, 0)
    ELSE IF Head(order) = failing THEN Outcome(db, TRUE, 0)
    ELSE RecalcInOrder(RecalcCall(db, Head(order)), Tail(order), failing)

\* PositionCRUD.recalculate_all_positions; failing is the ticker whose
\* recalculation raises ("" for none).
RecalculateAllPositions(order, failing) ==
    LET out == RecalcInOrder(DB, order, failing)
    IN  /\ Commit(out.db)
        /\ UNCHANGED nextId
        /\ last' = Result("recalculate_all_positions",
                          IF out.raised THEN "raise" ELSE "true", failing)

\* portfolio_operations.recalculate_all_positions, from what the CRUD call
\* returned or raised.
RecalculateAllResponse(ret) ==
    IF ret = "true"
    THEN OperationResponse(TRUE, "Successfully recalculated all positions", None)
    ELSE IF ret = "false"
    THEN OperationResponse(FALSE, "Failed to recalculate positions", None)
    ELSE OperationResponse(FALSE, "Error recalculating all positions", None)

RecalcAllNext ==
    \E order \in Orders(DistinctTickers(DB)),
       failing \in DistinctTickers(DB) \cup {""} :
        /\ RecalculateAllPositions(order, failing)
        /\ UNCHANGED <<issued, conns>>

RecalcAllSpec == RecalcInit /\ [][RecalcAllNext]_vars

\* Every ticker of the ledger other than the failed one has been
\* recalculated: recalculating it again changes nothing.
OthersRecalculated(failed) ==
    \A t \in DistinctTickers(DB) \ {failed} : RecalcCall(DB, t) = DB

\* C13 as stated: when recalculate_all_positions met a failure on one
\* ticker, every other ticker of the ledger has been recalculated, and the
\* response carries a summary (count recalculated, failed tickers).
C13_RecalculateAllIsolatesFailure ==
    (last.op = "recalculate_all_positions" /\ last.ret = "raise") =>
        /\ OthersRecalculated(last.ticker)
        /\ IsSome(RecalculateAllResponse(last.ret).data)

(***************************************************************************)
(* portfolio_operations: the transaction calls.  Dates arrive as strings   *)
(* and are parsed with "%Y-%m-%d"; quantities and prices arrive as numbers *)
(* and are stored as given.                                                *)
(***************************************************************************)
DateStrings == {"2024-01-01", "2024-01-02", "01/02/2024"}

\* Variant: a string that does not parse is taken as the first date.
ParseDateLenient(s) ==
    CASE s = "2024-01-01" -> Some(1)
      [] s = "2024-01-02" -> Some(2)
      [] OTHER            -> Some(1)

\* datetime.strptime(s, "%Y-%m-%d").date(): None stands for ValueError.
ParseDate(s) ==
    CASE s = "2024-01-01" -> Some(1)
      [] s = "2024-01-02" -> Some(2)
      [] OTHER            -> None

CreateTransactionInput(tk, ty, q, c, d) ==
    [ticker |-> tk, transaction_type |-> ty, quantity |-> q,
     cost_per_share |-> c, transaction_date |-> d]

\* The TransactionCreate built from an input whose date parses; no commission
\* is supplied (a NULL commission is held as no commission) and the
\* fractional multiplier is left to its default.
TransactionOf(input) ==
    TransactionCreate(input.ticker, input.transaction_type, input.quantity,
                      input.cost_per_share, Val(ParseDate(input.transaction_date)),
                      DefaultCommission, DefaultMultiplier)

\* What the caller is told: the call, the ticker or id it named, and the
\* response.
Call(op, ticker, id, response) ==
    [op |-> op, ticker |-> ticker, id |-> id, response |-> response]

\* Variant: the except branch is missing, the call answers as if the insert
\* had returned.
CreateResponseWithoutExcept(raised, id) ==
    OperationResponse(TRUE, "Successfully created transaction", Some(id))

CreateResponse(raised, id) ==
    IF raised
    THEN OperationResponse(FALSE, "Error creating transaction", None)
    ELSE OperationResponse(TRUE, "Successfully created transaction", Some(id))

\* portfolio_operations.create_transaction
OpCreateTransaction(input, failAt) ==
    IF ParseDate(input.transaction_date) = None
    THEN /\ UNCHANGED <<ledger, positions, nextId>>
         /\ last' = Call("create_transaction", input.ticker, 0,
                         CreateResponse(TRUE, 0))
    ELSE LET tx  == TransactionOf(input)
             out == SqlInsert(DB, NewRow(nextId, tx), failAt)
         IN  /\ CreateTransaction(tx, failAt)
             /\ last' = Call("create_transaction", input.ticker, 0,
                             CreateResponse(out.raised, nextId))

\* UpdateTransactionInput without the transaction_id: every field unset.
NoFields ==
    [ticker |-> None, transaction_type |-> None, quantity |-> None,
     cost_per_share |-> None, transaction_date |-> None]

\* Some supplied date does not parse.
BadDate(fields) ==
    IsSome(fields.transaction_date) /\ ParseDate(Val(fields.transaction_date)) = None

\* The TransactionUpdate built from the supplied fields.
UpdatesOf(fields) ==
    [fields EXCEPT !.transaction_date = IF IsSome(@) THEN ParseDate(Val(@)) ELSE @]

\* Variant: rows_affected is not looked at.
UpdateReturnIgnoringRows(db, id, updates, failAt) ==
    IF SqlUpdate(db, id, UpdateParams(updates), failAt).raised
    THEN "raise" ELSE "true"

\* What TransactionCRUD.update_transaction returns ("raise": it raises).
UpdateReturn(db, id, updates, failAt) ==
    IF updates = NoUpdate THEN "false"
    ELSE LET out == SqlUpdate(db, id, UpdateParams(updates), failAt)
         IN  IF out.raised THEN "raise"
             ELSE IF out.rowcount > 0 THEN "true" ELSE "false"

UpdateResponse(ret) ==
    IF ret = "true"
    THEN OperationResponse(TRUE, "Successfully updated transaction", None)
    ELSE IF ret = "false"
    THEN OperationResponse(FALSE, "Transaction not found or no changes made", None)
    ELSE OperationResponse(FALSE, "Error updating transaction", None)

\* The ticker an update names ("" when it names none).
SuppliedTicker(fields) == IF IsSome(fields.ticker) THEN Val(fields.ticker) ELSE ""

\* portfolio_operations.update_transaction
OpUpdateTransaction(id, fields, failAt) ==
    IF BadDate(fields)
    THEN /\ UNCHANGED <<ledger, positions, nextId>>
         /\ last' = Call("update_transaction", SuppliedTicker(fields), id,
                         UpdateResponse("raise"))
    ELSE /\ UpdateTransaction(id, UpdatesOf(fields), failAt)
         /\ last' = Call("update_transaction", SuppliedTicker(fields), id,
                         UpdateResponse(UpdateReturn(DB, id, UpdatesOf(fields), failAt)))

\* What TransactionCRUD.delete_transaction returns ("raise": it raises).
DeleteReturn(db, id, failAt) ==
    LET out == SqlDelete(db, id, failAt)
    IN  IF out.raised THEN "raise"
        ELSE IF out.rowcount > 0 THEN "true" ELSE "false"

DeleteResponse(ret) ==
    IF ret = "true"
    THEN OperationResponse(TRUE, "Successfully deleted transaction", None)
    ELSE IF ret = "false"
    THEN OperationResponse(FALSE, "Transaction not found", None)
    ELSE OperationResponse(FALSE, "Error deleting transaction", None)

\* portfolio_operations.delete_transaction
OpDeleteTransaction(id, failAt) ==
    /\ DeleteTransaction(id, failAt)
    /\ last' = Call("delete_transaction", "", id,
                    DeleteResponse(DeleteReturn(DB, id, failAt)))

RecalculateResponse(ret) ==
    IF ret = "true"
    THEN OperationResponse(TRUE, "Successfully recalculated position", None)
    ELSE IF ret = "false"
    THEN OperationResponse(FALSE, "Failed to recalculate position", None)
    ELSE OperationResponse(FALSE, "Error recalculating position", None)

\* portfolio_operations.recalculate_position
OpRecalculatePosition(ticker, failAt) ==
    LET out == SqlSelectRecalculate(DB, Upper(ticker), failAt)
    IN  /\ Commit(GetConnection(DB, out))
        /\ UNCHANGED nextId
        /\ last' = Call("recalculate_position", ticker, 0,
                        RecalculateResponse(IF out.raised THEN "raise" ELSE "true"))

(***************************************************************************)
(* OpsSpec: the calls of the operations layer, one at a time, on inputs    *)
(* that include what validation has to refuse.                             *)
(***************************************************************************)
OpsTicker == "aapl"

OpsCreateInputs ==
    {CreateTransactionInput(OpsTicker, ty, q, 100, d) :
        ty \in {"BUY", "sell", "HOLD"}, q \in {10, -5},
        d \in {"2024-01-01", "01/02/2024"}}

OpsUpdateFields ==
    {NoFields,
     [NoFields EXCEPT !.transaction_type = Some("HOLD")],
     [NoFields EXCEPT !.transaction_type = Some("sell")],
     [NoFields EXCEPT !.quantity = Some(5)],
     [NoFields EXCEPT !.transaction_date = Some("2024-01-02")],
     [NoFields EXCEPT !.transaction_date = Some("01/02/2024")]}

OpsInit ==
    /\ ledger = {}
    /\ positions = NoPositions
    /\ nextId = 1
    /\ last = Call("init", "", 0, OperationResponse(TRUE, "", None))
    /\ issued = <<>>
    /\ conns = <<>>

OpsNext ==
    \/ /\ nextId <= MaxTx
       /\ \E input \in OpsCreateInputs, f \in FailPoints : OpCreateTransaction(input, f)
       /\ UNCHANGED <<issued, conns>>
    \/ /\ \E id \in TxIds, fields \in OpsUpdateFields :
             OpUpdateTransaction(id, fields, "none")
       /\ UNCHANGED <<issued, conns>>
    \/ /\ \E id \in TxIds : OpDeleteTransaction(id, "none")
       /\ UNCHANGED <<issued, conns>>
    \/ /\ \E f \in FailPoints : OpRecalculatePosition(OpsTicker, f)
       /\ UNCHANGED <<issued, conns>>

OpsSpec == OpsInit /\ [][OpsNext]_vars

(***************************************************************************)
(* Properties of OpsSpec.                                                  *)
(***************************************************************************)
HasRow(id) == \E r \in ledger : r.id = id

RowOf(rows, id) == CHOOSE r \in rows : r.id = id

WellFormedDate(s) == s \in {"2024-01-01", "2024-01-02"}

DayOf(s) == IF s = "2024-01-01" THEN 1 ELSE 2

KnownType(ty) == Upper(ty) \in {"BUY", "SELL", "DIVIDEND", "SPLIT"}

ValidFields(fields) ==
    /\ IsSome(fields.transaction_type) => KnownType(Val(fields.transaction_type))
    /\ IsSome(fields.transaction_date) => WellFormedDate(Val(fields.transaction_date))

\* The row old with exactly the supplied fields replaced.
Supplied(old, fields) ==
    [old EXCEPT
        !.ticker = IF IsSome(fields.ticker) THEN Upper(Val(fields.ticker)) ELSE @,
        !.transaction_type =
            IF IsSome(fields.transaction_type)
            THEN Upper(Val(fields.transaction_type)) ELSE @,
        !.quantity = IF IsSome(fields.quantity) THEN Val(fields.quantity) ELSE @,
        !.cost_per_share =
            IF IsSome(fields.cost_per_share) THEN Val(fields.cost_per_share) ELSE @,
        !.transaction_date =
            IF IsSome(fields.transaction_date)
            THEN DayOf(Val(fields.transaction_date)) ELSE @]

\* C14: an update_transaction call that reports success has replaced exactly
\* the supplied fields of the row with the given id; the row's other fields
\* and its id, and every other row of the ledger, are as before.
C14_PartialUpdateFrame ==
    [][\A id \in TxIds, fields \in OpsUpdateFields :
          (/\ last'.op = "update_transaction"
           /\ last'.id = id
           /\ last'.response.success
           /\ OpUpdateTransaction(id, fields, "none"))
          => /\ HasRow(id)
             /\ ledger' = (ledger \ {RowOf(ledger, id)})
                              \cup {Supplied(RowOf(ledger, id), fields)}]_vars

\* The last call was a successful update of one of two rows, and the row it
\* named holds a quantity that only an update supplies.
C14_Witness ==
    /\ last.op = "update_transaction"
    /\ last.response.success
    /\ Cardinality(ledger) = 2
    /\ HasRow(last.id)
    /\ RowOf(ledger, last.id).quantity = 5
    /\ RowOf(ledger, last.id).transaction_type = "BUY"

\* C15: update_transaction or delete_transaction on an id the ledger does
\* not hold, and update_transaction without any field, report failure (the
\* CRUD call returned False when the supplied fields are valid) and leave
\* ledger and positions unchanged; a call reports success only when the row
\* with the given id existed, and then only that row was changed or removed.
C15_NotAppliedChangesNothing ==
    [][/\ \A id \in TxIds, fields \in OpsUpdateFields :
             /\ (/\ last'.op = "update_transaction"
                 /\ last'.id = id
                 /\ (~HasRow(id) \/ fields = NoFields)
                 /\ OpUpdateTransaction(id, fields, "none"))
                => /\ ~last'.response.success
                   /\ UNCHANGED <<ledger, positions>>
                   /\ ValidFields(fields)
                      => last'.response.message =
                             "Transaction not found or no changes made"
             /\ (/\ last'.op = "update_transaction"
                 /\ last'.id = id
                 /\ last'.response.success
                 /\ OpUpdateTransaction(id, fields, "none"))
                => /\ HasRow(id)
                   /\ {r \in ledger' : r.id # id} = {r \in ledger : r.id # id}
       /\ \A id \in TxIds :
             /\ (/\ last'.op = "delete_transaction"
                 /\ last'.id = id
                 /\ ~HasRow(id)
                 /\ OpDeleteTransaction(id, "none"))
                => /\ ~last'.response.success
                   /\ last'.response.message = "Transaction not found"
                   /\ UNCHANGED <<ledger, positions>>
             /\ (/\ last'.op = "delete_transaction"
                 /\ last'.id = id
                 /\ last'.response.success
                 /\ OpDeleteTransaction(id, "none"))
                => /\ HasRow(id)
                   /\ ledger' = ledger \ {RowOf(ledger, id)}]_vars

\* A delete named an id the ledger does not hold, while it holds another.
C15_Witness ==
    /\ last.op = "delete_transaction"
    /\ ~last.response.success
    /\ last.response.message = "Transaction not found"
    /\ ledger # {}
    /\ ~HasRow(last.id)

\* C16: a create or update request whose transaction_date does not parse or
\* whose transaction type is unknown is answered with a failure, and ledger
\* and positions are after it what they were before it.
C16_ValidationBeforeMutation ==
    [][/\ \A input \in OpsCreateInputs, f \in FailPoints :
             (/\ last'.op = "create_transaction"
              /\ (~WellFormedDate(input.transaction_date)
                     \/ ~KnownType(input.transaction_type))
              /\ OpCreateTransaction(input, f))
             => /\ ~last'.response.success
                /\ UNCHANGED <<ledger, positions>>
       /\ \A id \in TxIds, fields \in OpsUpdateFields :
             (/\ last'.op = "update_transaction"
              /\ last'.id = id
              /\ ~ValidFields(fields)
              /\ OpUpdateTransaction(id, fields, "none"))
             => /\ ~last'.response.success
                /\ UNCHANGED <<ledger, positions>>]_vars

\* An update of an existing row was refused (updates meet no storage failure
\* here, so the error is the refusal of the date or of the type).
C16_Witness ==
    /\ last.op = "update_transaction"
    /\ last.response.message = "Error updating transaction"
    /\ HasRow(last.id)

\* The responses a create_transaction call gives for a clean success.
CleanCreateResponses == {CreateResponse(FALSE, id) : id \in 1..(MaxTx + 1)}

\* C17 as stated: a SELL whose insertion makes the folded quantity of its
\* ticker negative is committed to the ledger, and the response to the
\* caller differs from the response of a clean success (it carries a
\* warning).
C17_OversellWarned ==
    [][\A input \in OpsCreateInputs :
          (/\ OpCreateTransaction(input, "none")
           /\ WellFormedDate(input.transaction_date)
           /\ Upper(input.transaction_type) = "SELL"
           /\ RNeg(Fold(TxRowsOf(Upper(input.ticker))').quantity))
          => /\ Cardinality(ledger') = Cardinality(ledger) + 1
             /\ last'.response \notin CleanCreateResponses]_vars

\* C18 as stated: recalculate_position on a ticker without any transaction
\* answers differently from a recalculation that succeeds with quantity
\* zero.
C18_NotFoundDistinguished ==
    (last.op = "recalculate_position" /\ TxRowsOf(Upper(last.ticker)) = {})
        => last.response # RecalculateResponse("true")

\* C20 as stated: every transaction in the ledger has quantity >= 0.
C20_QuantityNonNegative == \A r \in ledger : r.quantity >= 0

(***************************************************************************)
(* MarketSpec: ledger writes through the operations layer and market-price *)
(* updates, one call at a time.                                            *)
(***************************************************************************)
MarketPrices == {Zero, Dec(150)}

MarketInputs ==
    {CreateTransactionInput(tk, ty, q, 100, "2024-01-01") :
        tk \in InputTickers, ty \in {"BUY", "SELL"}, q \in {5, 10}}

MarketUpdates ==
    {[NoFields EXCEPT !.quantity = Some(q)] : q \in {5, 10}}
    \cup {[NoFields EXCEPT !.ticker = Some("msft")]}

MarketNext ==
    \/ /\ nextId <= MaxTx
       /\ \E input \in MarketInputs : OpCreateTransaction(input, "none")
       /\ UNCHANGED <<issued, conns>>
    \/ /\ \E id \in TxIds, u \in MarketUpdates : OpUpdateTransaction(id, u, "none")
       /\ UNCHANGED <<issued, conns>>
    \/ /\ \E id \in TxIds : OpDeleteTransaction(id, "none")
       /\ UNCHANGED <<issued, conns>>
    \/ /\ \E t \in InputTickers, p \in MarketPrices : UpdatePositionMarketData(t, p)
       /\ UNCHANGED <<issued, conns>>

MarketSpec == OpsInit /\ [][MarketNext]_vars

CaseTickers == {"aapl", "AAPL", "MSFT"}

CaseInputs ==
    {TransactionCreate(tk, ty, q, 100, d, DefaultCommission, DefaultMultiplier) :
        tk \in CaseTickers, ty \in {"BUY", "sell"}, q \in {5, 10}, d \in Dates}

BulkInputs ==
    {TransactionCreate(tk, "buy", 10, 100, 1, DefaultCommission, DefaultMultiplier) :
        tk \in CaseTickers}

\* The parameter tuple bulk_create_transactions builds for one transaction.
BulkInsertParams(tx) ==
    [tx EXCEPT !.ticker = Upper(tx.ticker),
               !.transaction_type = Upper(tx.transaction_type)]

\* The loop of bulk_create_transactions: one INSERT per transaction, each on
\* a connection of its own; failIdx is the index of an INSERT that meets a
\* storage failure (0: none).  The first INSERT that raises ends the loop
\* with the earlier rows committed.
RECURSIVE BulkInsert(_, _, _, _, _)
BulkInsert(db, txs, i, id, failIdx) ==
    IF i > Len(txs) THEN [db |-> db, nextId |-> id, raised |-> FALSE]
    ELSE LET out == SqlInsert(db, [id |-> id] @@ BulkInsertParams(txs[i]), "none")
         IN  IF i = failIdx \/ out.raised
             THEN [db |-> db, nextId |-> id, raised |-> TRUE]
             ELSE BulkInsert(GetConnection(db, out), txs, i + 1, id + 1, failIdx)

\* TransactionCRUD.bulk_create_transactions
BulkCreateTransactions(txs, failIdx) ==
    LET out == BulkInsert(DB, txs, 1, nextId, failIdx)
    IN  /\ Commit(out.db)
        /\ nextId' = out.nextId

CaseUpdates == {[NoUpdate EXCEPT !.ticker = Some(tk)] : tk \in CaseTickers \cup {"msft"}}

CaseNext ==
    \/ /\ nextId <= MaxTx
       /\ \E tx \in CaseInputs, f \in FailPoints : CreateTransaction(tx, f)
       /\ UNCHANGED <<last, issued, conns>>
    \/ /\ \E txs \in SeqsUpTo(BulkInputs, 2), failIdx \in 0..2 :
             /\ nextId + Len(txs) - 1 <= MaxTx
             /\ BulkCreateTransactions(txs, failIdx)
       /\ UNCHANGED <<last, issued, conns>>
    \/ /\ \E id \in TxIds, u \in CaseUpdates : UpdateTransaction(id, u, "none")
       /\ UNCHANGED <<last, issued, conns>>

CaseSpec == Init /\ [][CaseNext]_vars

\* C19: every stored transaction has an upper-case ticker, whatever the
\* letter case given to create_transaction, bulk_create_transactions or
\* update_transaction; the transactions of a ticker entered under different
\* spellings are folded into one position, stored under the upper-case
\* ticker.
C19_TickerUpperCase ==
    /\ \A r \in ledger : r.ticker = Upper(r.ticker) /\ r.ticker \in {"AAPL", "MSFT"}
    /\ \A t \in {"AAPL", "MSFT"} :
          /\ PositionRowsOf(t) \subseteq {t}
          /\ AgreesWithFold(positions[t], TxRowsOf(t))

\* Two BUY transactions stand under AAPL in one position (entered as 'aapl'
\* or 'AAPL', or moved there by an update), and none under MSFT.
C19_Witness ==
    /\ Cardinality(ledger) = 2
    /\ \A r \in ledger : r.ticker = "AAPL" /\ r.transaction_type = "BUY"
    /\ IsSome(positions["AAPL"])
    /\ Val(positions["AAPL"]).current_quantity = Dec(15)
    /\ PositionRowsOf("MSFT") = {}

(***************************************************************************)
(* PortfolioCRUD: the aggregates over the positions table.  A SQL          *)
(* aggregate skips NULL values; SUM, AVG, MAX and MIN over no value are    *)
(* NULL, COUNT over no row is 0.  The timestamp columns of the tables      *)
(* (created_at, updated_at, last_price_update) are not part of the rows    *)
(* of the model.                                                           *)
(***************************************************************************)
\* The rows of table positions.
PositionRows(db) ==
    {Val(db.positions[t]) : t \in {x \in AllTickers : IsSome(db.positions[x])}}

\* Variant: the aggregate reads every position row.
PerformanceRowsUnfiltered(db) == PositionRows(db)

\* FROM positions WHERE current_quantity > 0
PerformanceRows(db) == {p \in PositionRows(db) : RPos(p.current_quantity)}

\* FROM positions WHERE current_quantity > 0
BreakdownRows(db) == {p \in PositionRows(db) : RPos(p.current_quantity)}

\* current_quantity * current_price: NULL when the price is NULL.
QuantityTimesPrice(p) ==
    IF IsSome(p.current_price)
    THEN Some(RMul(p.current_quantity, Val(p.current_price))) ELSE None

\* SUM(col) over rows, col being the optional value col[ticker] of each row.
RECURSIVE SqlSum(_, _)
SqlSum(col, rows) ==
    IF rows = {} THEN None
    ELSE LET r == CHOOSE x \in rows : TRUE
             rest == SqlSum(col, rows \ {r})
             v == col[r.ticker]
         IN  IF ~IsSome(v) THEN rest
             ELSE IF IsSome(rest) THEN Some(RAdd(Val(v), Val(rest))) ELSE v

NonNull(col, rows) == {r \in rows : IsSome(col[r.ticker])}

SqlAvg(col, rows) ==
    IF NonNull(col, rows) = {} THEN None
    ELSE Some(RDiv(Val(SqlSum(col, rows)), Dec(Cardinality(NonNull(col, rows)))))

SqlMax(col, rows) ==
    IF NonNull(col, rows) = {} THEN None
    ELSE col[(CHOOSE r \in NonNull(col, rows) :
                \A o \in NonNull(col, rows) :
                    ~RLt(Val(col[r.ticker]), Val(col[o.ticker]))).ticker]

SqlMin(col, rows) ==
    IF NonNull(col, rows) = {} THEN None
    ELSE col[(CHOOSE r \in NonNull(col, rows) :
                \A o \in NonNull(col, rows) :
                    ~RLt(Val(col[o.ticker]), Val(col[r.ticker]))).ticker]

\* The columns the aggregates read, by ticker.
ColUnrealized(rows) == [t \in {r.ticker : r \in rows} |->
    (CHOOSE r \in rows : r.ticker = t).unrealized_gain_loss]
ColMarketValue(rows) == [t \in {r.ticker : r \in rows} |->
    QuantityTimesPrice(CHOOSE r \in rows : r.ticker = t)]
ColCostBasis(rows) == [t \in {r.ticker : r \in rows} |->
    Some((CHOOSE r \in rows : r.ticker = t).total_cost_basis)]

\* The one row of the performance query.
PerformanceQuery(db) ==
    LET rows == PerformanceRows(db)
        ugl == ColUnrealized(rows)
    IN  [total_positions |-> Cardinality(rows),
         winning_positions |->
             Cardinality({r \in NonNull(ugl, rows) : RPos(Val(ugl[r.ticker]))}),
         losing_positions |->
             Cardinality({r \in NonNull(ugl, rows) : RNeg(Val(ugl[r.ticker]))}),
         avg_unrealized_pnl |-> SqlAvg(ugl, rows),
         best_performer |-> SqlMax(ugl, rows),
         worst_performer |-> SqlMin(ugl, rows),
         total_market_value |-> SqlSum(ColMarketValue(rows), rows),
         total_invested |-> SqlSum(ColCostBasis(rows), rows)]

\* Python truth value of an optional Decimal: None and 0 are false.
Truthy(o) == IsSome(o) /\ Val(o) # Zero

\* Variant: the two divisions are made without looking at their divisors
\* (float(None) and a division by zero raise).
GetPerformanceMetricsUnguarded(db) ==
    LET result == PerformanceQuery(db)
    IN  IF \/ ~Truthy(result.total_invested)
           \/ ~IsSome(result.total_market_value)
           \/ result.total_positions = 0
        THEN [raised |-> TRUE, result |-> None]
        ELSE [raised |-> FALSE,
              result |-> Some(
                  [total_return_percentage |->
                       RMul(RDiv(RSub(Val(result.total_market_value),
                                      Val(result.total_invested)),
                                 Val(result.total_invested)),
                            Dec(100)),
                   win_rate |->
                       RMul(Rat(result.winning_positions,
                                result.total_positions), Dec(100))] @@ result)]

\* PortfolioCRUD.get_performance_metrics: the row of the query with
\* total_return_percentage and win_rate added.  float(None) raises, and the
\* exception is raised again to the caller.
GetPerformanceMetrics(db) ==
    LET result == PerformanceQuery(db)
        invested == Truthy(result.total_invested) /\ RPos(Val(result.total_invested))
    IN  IF invested /\ ~IsSome(result.total_market_value)
        THEN [raised |-> TRUE, result |-> None]
        ELSE [raised |-> FALSE,
              result |-> Some(
                  [total_return_percentage |->
                       IF invested
                       THEN RMul(RDiv(RSub(Val(result.total_market_value),
                                           Val(result.total_invested)),
                                      Val(result.total_invested)),
                                 Dec(100))
                       ELSE Zero,
                   win_rate |->
                       IF result.total_positions > 0
                       THEN RMul(Rat(result.winning_positions,
                                     result.total_positions), Dec(100))
                       ELSE Zero] @@ result)]

\* positions.primary_currency: the currency the ticker's transactions are
\* in; each ticker of the model trades in one currency.
PrimaryCurrency(t) == IF t = "AAPL" THEN "USD" ELSE "EUR"

\* PortfolioCRUD.get_currency_breakdown: one row per primary_currency of the
\* positions read.
GetCurrencyBreakdown(db) ==
    LET rows == BreakdownRows(db)
        InCurrency(c) == {r \in rows : PrimaryCurrency(r.ticker) = c}
    IN  {[primary_currency |-> c,
          positions_count |-> Cardinality(InCurrency(c)),
          total_market_value |-> SqlSum(ColMarketValue(rows), InCurrency(c)),
          total_cost_basis |-> SqlSum(ColCostBasis(rows), InCurrency(c)),
          total_unrealized_pnl |-> SqlSum(ColUnrealized(rows), InCurrency(c))] :
            c \in {PrimaryCurrency(r.ticker) : r \in rows}}

(***************************************************************************)
(* portfolio_operations: market data and the aggregates.                   *)
(***************************************************************************)
\* datetime.fromisoformat(s): None stands for ValueError.
ParseTimestamp(s) == IF s = "2024-01-03T10:00:00" THEN Some(3) ELSE None

\* UpdateMarketDataInput; last_price_update is optional.
UpdateMarketDataInput(tk, price, at) ==
    [ticker |-> tk, current_price |-> price, last_price_update |-> at]

BadTimestamp(input) ==
    IsSome(input.last_price_update)
        /\ ParseTimestamp(Val(input.last_price_update)) = None

MarketDataResponse(ret) ==
    IF ret = "true"
    THEN OperationResponse(TRUE, "Successfully updated market data", None)
    ELSE IF ret = "false"
    THEN OperationResponse(FALSE, "Position not found", None)
    ELSE OperationResponse(FALSE, "Error updating market data", None)

\* portfolio_operations.update_market_data; failAt "store" is a storage
\* failure of the UPDATE.
OpUpdateMarketData(input, failAt) ==
    IF BadTimestamp(input) \/ failAt = "store"
    THEN /\ UNCHANGED <<ledger, positions, nextId>>
         /\ last' = Call("update_market_data", input.ticker, 0,
                         MarketDataResponse("raise"))
    ELSE LET out == MarketDataStatement(DB, GetPositionByTicker(DB, input.ticker),
                                        input.ticker, input.current_price)
         IN  /\ Commit(GetConnection(DB, out))
             /\ UNCHANGED nextId
             /\ last' = Call("update_market_data", input.ticker, 0,
                             MarketDataResponse(IF out.rowcount > 0
                                                THEN "true" ELSE "false"))

MetricsResponse(metrics) ==
    IF metrics.raised
    THEN OperationResponse(FALSE, "Error getting performance metrics", None)
    ELSE OperationResponse(TRUE, "Performance metrics retrieved successfully",
                           metrics.result)

\* portfolio_operations.get_performance_metrics; failAt "store" is a storage
\* failure of the query.
OpGetPerformanceMetrics(failAt) ==
    /\ UNCHANGED <<ledger, positions, nextId>>
    /\ last' = Call("get_performance_metrics", "", 0,
                    IF failAt = "store"
                    THEN MetricsResponse([raised |-> TRUE, result |-> None])
                    ELSE MetricsResponse(GetPerformanceMetrics(DB)))

\* PortfolioCRUD.get_currency_breakdown, called directly.
CurrencyBreakdown ==
    /\ UNCHANGED <<ledger, positions, nextId>>
    /\ last' = [op |-> "get_currency_breakdown", ret |-> GetCurrencyBreakdown(DB),
                ticker |-> ""]

(***************************************************************************)
(* AggregateSpec: the aggregates read a Position Store that a sequence of  *)
(* creates has built, between market-price updates.                        *)
(***************************************************************************)
AggregateInputs ==
    {TransactionCreate("aapl", "BUY", 10, 100, 1, DefaultCommission, DefaultMultiplier),
     TransactionCreate("aapl", "SELL", 10, 100, 2, DefaultCommission, DefaultMultiplier),
     TransactionCreate("MSFT", "BUY", 5, 200, 1, DefaultCommission, DefaultMultiplier),
     TransactionCreate("MSFT", "BUY", 5, 0, 1, DefaultCommission, DefaultMultiplier)}

AggregateInit ==
    /\ \E txs \in SeqsUpTo(AggregateInputs, MaxLen) :
          /\ ledger = InsertAll(EmptyDB, txs, 1).ledger
          /\ positions = InsertAll(EmptyDB, txs, 1).positions
          /\ nextId = Len(txs) + 1
    /\ last = Call("init", "", 0, OperationResponse(TRUE, "", None))
    /\ issued = <<>>
    /\ conns = <<>>

AggregateNext ==
    \/ /\ \E t \in InputTickers, p \in MarketPrices :
             OpUpdateMarketData(UpdateMarketDataInput(t, p, None), "none")
       /\ UNCHANGED <<issued, conns>>
    \/ /\ OpGetPerformanceMetrics("none")
       /\ UNCHANGED <<issued, conns>>
    \/ /\ CurrencyBreakdown
       /\ UNCHANGED <<issued, conns>>

AggregateSpec == AggregateInit /\ [][AggregateNext]_vars

(***************************************************************************)
(* Properties of AggregateSpec.                                            *)
(***************************************************************************)
\* The position of ticker t is open: it has a row of quantity > 0.
IsOpen(t) == IsSome(positions[t]) /\ RPos(Val(positions[t]).current_quantity)

InvestedIn(t) == IF IsOpen(t) THEN Val(positions[t]).total_cost_basis ELSE Zero

NoOpenPosition == \A t \in Tickers : ~IsOpen(t)

NoInvestedCapital == RAdd(InvestedIn("AAPL"), InvestedIn("MSFT")) = Zero

MetricsAnswered == last.op = "get_performance_metrics"

\* C21 as stated: on a Position Store with no position of quantity > 0, or
\* with total invested capital zero, get_performance_metrics succeeds with
\* total_return_percentage = 0 and win_rate = 0.
C21_ZeroDivisionSafe ==
    (MetricsAnswered /\ (NoOpenPosition \/ NoInvestedCapital)) =>
        /\ last.response.success
        /\ Val(last.response.data).total_return_percentage = Zero
        /\ Val(last.response.data).win_rate = Zero

\* C21, amended: on a Position Store with no position of quantity > 0, or
\* with total invested capital zero, get_performance_metrics succeeds with
\* total_return_percentage = 0; win_rate is 0 when there is no position of
\* quantity > 0, and otherwise the share of open positions with a positive
\* unrealized gain.
C21_ZeroDivisionSafeAmended ==
    (MetricsAnswered /\ (NoOpenPosition \/ NoInvestedCapital)) =>
        /\ last.response.success
        /\ Val(last.response.data).total_return_percentage = Zero
        /\ NoOpenPosition => Val(last.response.data).win_rate = Zero
        /\ ~NoOpenPosition =>
              Val(last.response.data).win_rate =
                  RMul(Rat(Cardinality({t \in Tickers :
                              /\ IsOpen(t)
                              /\ IsSome(Val(positions[t]).unrealized_gain_loss)
                              /\ RPos(Val(Val(positions[t]).unrealized_gain_loss))}),
                           Cardinality({t \in Tickers : IsOpen(t)})),
                       Dec(100))

\* The metrics were answered on a store whose only position row is closed.
C21_Witness ==
    /\ MetricsAnswered
    /\ last.response.success
    /\ NoOpenPosition
    /\ IsSome(positions["AAPL"])
    /\ Val(positions["AAPL"]).current_quantity = Zero
    /\ Val(last.response.data).total_positions = 0

\* The position store with the row of ticker t replaced by row (None: no
\* row).
WithRow(t, row) == [DB EXCEPT !.positions[t] = row]

\* Position rows of quantity 0, with and without a price.
ClosedRows(t) ==
    {Some(PositionRow(t, [quantity |-> Zero, cost_basis |-> cb], price)) :
        cb \in {Zero, Dec(33)}, price \in {None, Some(Dec(150))}}

\* C22: the values of get_performance_metrics and get_currency_breakdown are
\* computed over the positions of quantity > 0 only: for a ticker without an
\* open position, removing its row or putting a row of quantity 0 in its
\* place changes no value of either result.
C22_ClosedPositionsIgnored ==
    \A t \in Tickers :
        ~IsOpen(t) =>
            \A row \in ClosedRows(t) \cup {None} :
                /\ GetPerformanceMetrics(WithRow(t, row)) = GetPerformanceMetrics(DB)
                /\ GetCurrencyBreakdown(WithRow(t, row)) = GetCurrencyBreakdown(DB)

\* The metrics were answered on a store holding a closed position (with a
\* price) next to an open one, and count the open one only.
C22_Witness ==
    /\ MetricsAnswered
    /\ last.response.success
    /\ IsSome(positions["AAPL"])
    /\ Val(positions["AAPL"]).current_quantity = Zero
    /\ IsSome(Val(positions["AAPL"]).current_price)
    /\ IsOpen("MSFT")
    /\ Val(last.response.data).total_positions = 1
    /\ Val(last.response.data).total_invested = Some(Dec(1000))

\* C27 as stated: get_performance_metrics answers with a metrics result,
\* with a total_return_percentage and a win_rate, on every Position Store
\* content.
C27_MetricsTotal ==
    MetricsAnswered =>
        /\ last.response.success
        /\ IsSome(last.response.data)

(***************************************************************************)
(* The market-price write path, in MarketSpec.                             *)
(***************************************************************************)
MarketDataAnswered == last.op = "update_position_market_data"

\* C24: update_position_market_data for ticker T leaves the ledger, every
\* other position, and T's current_quantity, avg_cost_per_share and
\* total_cost_basis unchanged; for a ticker without a position row it
\* returns false and creates no row, and otherwise it returns true.
C24_MarketDataFrame ==
    [][last'.op = "update_position_market_data" =>
          LET t == Upper(last'.ticker)
          IN  /\ ledger' = ledger
              /\ nextId' = nextId
              /\ \A u \in AllTickers : u # t => positions'[u] = positions[u]
              /\ IF IsSome(positions[t])
                 THEN /\ last'.ret = "true"
                      /\ IsSome(positions'[t])
                      /\ Val(positions'[t]).ticker = t
                      /\ Val(positions'[t]).current_quantity =
                             Val(positions[t]).current_quantity
                      /\ Val(positions'[t]).avg_cost_per_share =
                             Val(positions[t]).avg_cost_per_share
                      /\ Val(positions'[t]).total_cost_basis =
                             Val(positions[t]).total_cost_basis
                 ELSE /\ last'.ret = "false"
                      /\ positions'[t] = None]_vars

\* A price was written to the position of AAPL while MSFT, which has a
\* position too, has never had one.
C24_Witness ==
    /\ MarketDataAnswered
    /\ last.ret = "true"
    /\ last.ticker = "aapl"
    /\ IsSome(positions["AAPL"])
    /\ Val(positions["AAPL"]).current_price = Some(Dec(150))
    /\ Val(positions["AAPL"]).current_quantity = Dec(10)
    /\ IsSome(positions["MSFT"])
    /\ Val(positions["MSFT"]).current_price = None

MarketDataRead(ticker, price) ==
    /\ conns = <<>>
    /\ conns' = <<[ticker |-> ticker, price |-> price,
                   position |-> GetPositionByTicker(DB, ticker)]>>
    /\ UNCHANGED <<ledger, positions, nextId, last>>

\* The derived values are computed from the position read, and the UPDATE
\* writes them.
MarketDataWrite ==
    /\ conns # <<>>
    /\ LET c == conns[1]
           out == MarketDataStatement(DB, c.position, c.ticker, c.price)
       IN  /\ Commit(GetConnection(DB, out))
           /\ last' = Result("update_position_market_data",
                             IF out.rowcount > 0 THEN "true" ELSE "false", c.ticker)
    /\ conns' = <<>>
    /\ UNCHANGED nextId

RaceInputs ==
    {CreateTransactionInput("aapl", ty, q, 100, "2024-01-01") :
        ty \in {"BUY", "SELL"}, q \in {5, 10}}

RaceNext ==
    \/ /\ nextId <= MaxTx
       /\ \E input \in RaceInputs : OpCreateTransaction(input, "none")
       /\ UNCHANGED <<issued, conns>>
    \/ /\ \E id \in TxIds : OpDeleteTransaction(id, "none")
       /\ UNCHANGED <<issued, conns>>
    \/ /\ \E p \in MarketPrices : MarketDataRead("aapl", p)
       /\ UNCHANGED issued
    \/ /\ MarketDataWrite
       /\ UNCHANGED issued

RaceSpec == OpsInit /\ [][RaceNext]_vars

\* C26 as stated: when update_position_market_data has committed its
\* UPDATE, whatever ledger writes to the ticker were committed between its
\* read and its UPDATE, the position has current_market_value =
\* current_quantity x current_price and unrealized_gain_loss =
\* current_market_value - total_cost_basis for the quantity and cost basis
\* stored then.
C26_MarketValueUnderInterleaving ==
    (MarketDataAnswered /\ last.ret = "true") =>
        LET p == Val(positions[Upper(last.ticker)])
        IN  /\ p.current_market_value =
                   Some(RMul(p.current_quantity, Val(p.current_price)))
            /\ p.unrealized_gain_loss =
                   Some(RSub(Val(p.current_market_value), p.total_cost_basis))

(***************************************************************************)
(* Search.  A filter is applied when its value is true in Python's sense:  *)
(* None, the empty string and 0 leave it out.                              *)
(***************************************************************************)
\* SearchTransactionsInput: every field optional.
SearchTransactionsInput(tk, from, to, ty, lo, hi) ==
    [ticker |-> tk, start_date |-> from, end_date |-> to,
     transaction_type |-> ty, min_quantity |-> lo, max_quantity |-> hi]

\* if value: for an optional string, an optional number and an optional
\* date (a date is always true).
GivenString(o) == IsSome(o) /\ Val(o) # ""
GivenNumber(o) == IsSome(o) /\ Val(o) # 0
GivenDate(o) == IsSome(o)

\* The WHERE clause of search_transactions for the arguments it was given
\* (dates already parsed).
SearchWhere(r, ticker, start_date, end_date, transaction_type, min_quantity, max_quantity) ==
    /\ GivenString(ticker) => r.ticker = Upper(Val(ticker))
    /\ GivenDate(start_date) => r.transaction_date >= Val(start_date)
    /\ GivenDate(end_date) => r.transaction_date <= Val(end_date)
    /\ GivenString(transaction_type) =>
           r.transaction_type = Upper(Val(transaction_type))
    /\ GivenNumber(min_quantity) => Abs(r.quantity) >= Val(min_quantity)
    /\ GivenNumber(max_quantity) => Abs(r.quantity) <= Val(max_quantity)

\* ORDER BY transaction_date DESC, created_at DESC
RECURSIVE NewestFirst(_)
NewestFirst(rows) ==
    IF rows = {} THEN <<>>
    ELSE LET r == CHOOSE x \in rows : \A o \in rows : o = x \/ Before(o, x)
         IN  <<r>> \o NewestFirst(rows \ {r})

\* PortfolioCRUD.search_transactions
SearchTransactions(db, ticker, start_date, end_date, transaction_type, min_quantity, max_quantity) ==
    NewestFirst({r \in db.ledger :
                    SearchWhere(r, ticker, start_date, end_date, transaction_type,
                                min_quantity, max_quantity)})

\* Decimal(str(x)) if x else None
SearchQuantity(o) == IF GivenNumber(o) THEN o ELSE None

SearchResponse(raised, transactions) ==
    IF raised
    THEN OperationResponse(FALSE, "Error searching transactions", None)
    ELSE OperationResponse(TRUE, "Found matching transactions", Some(transactions))

\* portfolio_operations.search_transactions; last keeps the input next to
\* the response.
OpSearchTransactions(input) ==
    LET bad(o) == GivenString(o) /\ ParseDate(Val(o)) = None
        day(o) == IF GivenString(o) THEN ParseDate(Val(o)) ELSE None
    IN  /\ UNCHANGED <<ledger, positions, nextId>>
        /\ last' = [op |-> "search_transactions", input |-> input,
                    response |->
                        IF bad(input.start_date) \/ bad(input.end_date)
                        THEN SearchResponse(TRUE, <<>>)
                        ELSE SearchResponse(FALSE,
                                 SearchTransactions(DB, input.ticker,
                                     day(input.start_date), day(input.end_date),
                                     input.transaction_type,
                                     SearchQuantity(input.min_quantity),
                                     SearchQuantity(input.max_quantity)))]

(***************************************************************************)
(* SearchSpec: searches on a ledger that a sequence of creates has built.  *)
(***************************************************************************)
SearchLedgerInputs ==
    {TransactionCreate("aapl", "BUY", 10, 100, 1, DefaultCommission, DefaultMultiplier),
     TransactionCreate("aapl", "SELL", 5, 100, 2, DefaultCommission, DefaultMultiplier),
     TransactionCreate("MSFT", "BUY", 5, 200, 2, DefaultCommission, DefaultMultiplier)}

SearchInputs ==
    {SearchTransactionsInput(tk, from, to, ty, lo, hi) :
        tk \in {None, Some("aapl")},
        from \in {None, Some("2024-01-02"), Some("01/02/2024")},
        to \in {None, Some("2024-01-01")},
        ty \in {None, Some("SELL")},
        lo \in {None, Some(0), Some(6)},
        hi \in {None, Some(0), Some(6)}}

SearchInit ==
    /\ \E txs \in SeqsUpTo(SearchLedgerInputs, MaxLen) :
          /\ ledger = InsertAll(EmptyDB, txs, 1).ledger
          /\ positions = InsertAll(EmptyDB, txs, 1).positions
          /\ nextId = Len(txs) + 1
    /\ last = Call("init", "", 0, OperationResponse(TRUE, "", None))
    /\ issued = <<>>
    /\ conns = <<>>

SearchNext ==
    /\ \E input \in SearchInputs : OpSearchTransactions(input)
    /\ UNCHANGED <<issued, conns>>

SearchSpec == SearchInit /\ [][SearchNext]_vars

\* Row r satisfies every filter the input supplies.
Satisfies(r, input) ==
    /\ IsSome(input.ticker) => r.ticker = Upper(Val(input.ticker))
    /\ IsSome(input.start_date) => r.transaction_date >= DayOf(Val(input.start_date))
    /\ IsSome(input.end_date) => r.transaction_date <= DayOf(Val(input.end_date))
    /\ IsSome(input.transaction_type) => r.transaction_type = Val(input.transaction_type)
    /\ IsSome(input.min_quantity) => r.quantity >= Val(input.min_quantity)
    /\ IsSome(input.max_quantity) => r.quantity <= Val(input.max_quantity)

WellFormedSearch(input) ==
    /\ IsSome(input.start_date) => WellFormedDate(Val(input.start_date))
    /\ IsSome(input.end_date) => WellFormedDate(Val(input.end_date))

Elements(seq) == {seq[i] : i \in DOMAIN seq}

\* C28 as stated: search_transactions returns exactly the ledger rows that
\* satisfy every supplied filter, for every filter value including a bound
\* of 0, every row once, ordered by transaction_date descending.
C28_SearchIsConjunction ==
    (last.op = "search_transactions" /\ WellFormedSearch(last.input)) =>
        /\ last.response.success
        /\ LET found == Val(last.response.data)
           IN  /\ Elements(found) = {r \in ledger : Satisfies(r, last.input)}
               /\ Len(found) = Cardinality(Elements(found))
               /\ \A i, j \in DOMAIN found :
                     i < j => found[i].transaction_date >= found[j].transaction_date

(***************************************************************************)
(* Ticker analysis: the position, the transactions of the ticker and the   *)
(* counters computed from the transactions' quantity column.               *)
(***************************************************************************)
\* sum(t['quantity'] for t in transactions if t['transaction_type'] == ty)
RECURSIVE SumQuantity(_, _)
SumQuantity(rows, ty) ==
    IF rows = {} THEN 0
    ELSE LET r == CHOOSE x \in rows : TRUE
         IN  (IF r.transaction_type = ty THEN r.quantity ELSE 0)
                 + SumQuantity(rows \ {r}, ty)

\* TransactionCRUD.get_transactions_by_ticker
GetTransactionsByTicker(db, ticker) == NewestFirst(RowsOf(db.ledger, Upper(ticker)))

\* PortfolioCRUD.get_ticker_analysis
GetTickerAnalysis(db, ticker) ==
    LET position == GetPositionByTicker(db, ticker)
        transactions == GetTransactionsByTicker(db, ticker)
        total_bought == SumQuantity(Elements(transactions), "BUY")
        total_sold == SumQuantity(Elements(transactions), "SELL")
    IN  [ticker |-> Upper(ticker),
         position |-> position,
         transactions |-> transactions,
         metrics |-> [total_bought |-> Dec(total_bought),
                      total_sold |-> Dec(total_sold),
                      net_quantity |-> Dec(total_bought - total_sold),
                      total_transactions |-> Len(transactions)]]

AnalysisResponse(raised, analysis) ==
    IF raised
    THEN OperationResponse(FALSE, "Error getting ticker analysis", None)
    ELSE OperationResponse(TRUE, "Analysis retrieved", Some(analysis))

\* portfolio_operations.get_ticker_analysis; failAt "store" is a storage
\* failure of one of the two queries.
OpGetTickerAnalysis(ticker, failAt) ==
    /\ UNCHANGED <<ledger, positions, nextId>>
    /\ last' = Call("get_ticker_analysis", ticker, 0,
                    IF failAt = "store"
                    THEN AnalysisResponse(TRUE, None)
                    ELSE AnalysisResponse(FALSE, GetTickerAnalysis(DB, ticker)))

(***************************************************************************)
(* AnalysisSpec: get_ticker_analysis on a ledger that a sequence of        *)
(* creates has built; some purchases are of fractional shares.             *)
(***************************************************************************)
AnalysisInputs ==
    {On(Buy10At100, 1), On(Sell5, 2), On(BuyTenth, 1),
     TransactionCreate("MSFT", "BUY", 5, 200, 1, DefaultCommission, DefaultMultiplier)}

AnalysisInit ==
    /\ \E txs \in SeqsUpTo(AnalysisInputs, MaxLen) :
          /\ ledger = InsertAll(EmptyDB, txs, 1).ledger
          /\ positions = InsertAll(EmptyDB, txs, 1).positions
          /\ nextId = Len(txs) + 1
    /\ last = Call("init", "", 0, OperationResponse(TRUE, "", None))
    /\ issued = <<>>
    /\ conns = <<>>

AnalysisNext ==
    /\ \E t \in InputTickers : OpGetTickerAnalysis(t, "none")
    /\ UNCHANGED <<issued, conns>>

AnalysisSpec == AnalysisInit /\ [][AnalysisNext]_vars

OnlyBuyAndSell(rows) == \A r \in rows : r.transaction_type \in {"BUY", "SELL"}

\* No sale in the fold of rows takes the quantity below zero.
NeverOversold(rows) == ~Fold(rows).warning

HeldOf(t) == IF IsSome(positions[t]) THEN Val(positions[t]).current_quantity ELSE Zero

\* C29 as stated: for a ticker whose ledger holds only BUY and SELL rows and
\* never sells more than is held, the net_quantity of get_ticker_analysis
\* equals the current_quantity of the ticker's position (0 when there is no
\* position), and total_transactions is the number of the ticker's rows.
C29_AnalysisAgreesWithPosition ==
    (/\ last.op = "get_ticker_analysis"
     /\ OnlyBuyAndSell(TxRowsOf(Upper(last.ticker)))
     /\ NeverOversold(TxRowsOf(Upper(last.ticker))))
    => /\ last.response.success
       /\ Val(last.response.data).metrics.net_quantity = HeldOf(Upper(last.ticker))
       /\ Val(last.response.data).metrics.total_transactions =
              Cardinality(TxRowsOf(Upper(last.ticker)))

(***************************************************************************)
(* CSVDataMigrator.migrate_csv_file, from the converted transactions on:   *)
(* batches go to bulk_create_transactions, a batch that raised is tried    *)
(* again one transaction at a time, and the positions are recalculated at  *)
(* the end.                                                                *)
(***************************************************************************)
MinOf(a, b) == IF a < b THEN a ELSE b

\* The running state of the migration.
MigrationStart(db, id) ==
    [db |-> db, nextId |-> id, migrated_count |-> 0,
     failed_migrations |-> <<>>, fallback |-> FALSE]

\* The except branch: create_transaction for each transaction of the batch;
\* i is the index of the batch's first transaction (from 0).
RECURSIVE MigrateIndividually(_, _, _, _)
MigrateIndividually(acc, batch, i, j) ==
    IF j > Len(batch) THEN acc
    ELSE LET out == SqlInsert(acc.db, NewRow(acc.nextId, batch[j]), "none")
         IN  MigrateIndividually(
                 IF out.raised
                 THEN [acc EXCEPT !.failed_migrations = Append(@, i + j - 1)]
                 ELSE [acc EXCEPT !.db = GetConnection(acc.db, out),
                                  !.nextId = @ + 1,
                                  !.migrated_count = @ + 1],
                 batch, i, j + 1)

\* The loop over the batches; failIdx is the position in transactions (from
\* 1) of an INSERT of the bulk call that meets a storage failure (0: none).
RECURSIVE MigrateBatches(_, _, _, _, _)
MigrateBatches(acc, transactions, i, batch_size, failIdx) ==
    IF i >= Len(transactions) THEN acc
    ELSE LET batch == SubSeq(transactions, i + 1,
                             MinOf(i + batch_size, Len(transactions)))
             out == BulkInsert(acc.db, batch, 1, acc.nextId, failIdx - i)
         IN  MigrateBatches(
                 IF out.raised
                 THEN MigrateIndividually(
                          [acc EXCEPT !.db = out.db, !.nextId = out.nextId,
                                      !.fallback = TRUE],
                          batch, i, 1)
                 ELSE [acc EXCEPT !.db = out.db, !.nextId = out.nextId,
                                  !.migrated_count = @ + Len(batch)],
                 transactions, i + batch_size, batch_size, failIdx)

\* migrate_csv_file; last keeps the converted transactions next to the
\* summary.
MigrateCsvFile(transactions, batch_size, failIdx, order) ==
    LET acc == MigrateBatches(MigrationStart(DB, nextId), transactions, 0,
                              batch_size, failIdx)
    IN  /\ order \in Orders(DistinctTickers(acc.db))
        /\ Commit(RecalcInOrder(acc.db, order, "").db)
        /\ nextId' = acc.nextId
        /\ last' = [op |-> "migrate_csv_file",
                    transactions |-> transactions,
                    fallback |-> acc.fallback,
                    summary |->
                        [successful_migrations |-> acc.migrated_count,
                         migration_failures |-> Len(acc.failed_migrations),
                         failed_migration_indices |-> acc.failed_migrations]]

(***************************************************************************)
(* MigrateSpec: one migration into an empty database.                      *)
(***************************************************************************)
MigrateInputs ==
    {TransactionCreate("aapl", "BUY", 10, 100, 1, DefaultCommission, DefaultMultiplier),
     TransactionCreate("MSFT", "BUY", 5, 200, 1, DefaultCommission, DefaultMultiplier),
     TransactionCreate("aapl", "SELL", 5, 100, 2, DefaultCommission, DefaultMultiplier),
     TransactionCreate("aapl", "HOLD", 5, 100, 2, DefaultCommission, DefaultMultiplier)}

BatchSizes == {2, 100}

MigrateNext ==
    /\ nextId = 1
    /\ \E transactions \in SeqsUpTo(MigrateInputs, MaxLen),
          batch_size \in BatchSizes,
          failIdx \in 0..MaxLen,
          order \in UNION {Orders(S) : S \in SUBSET Tickers} :
            MigrateCsvFile(transactions, batch_size, failIdx, order)
    /\ UNCHANGED <<issued, conns>>

MigrateSpec == Init /\ [][MigrateNext]_vars

\* How many times tx occurs in the converted transactions, and how many
\* ledger rows hold it.
Occurrences(transactions, tx) ==
    Cardinality({k \in DOMAIN transactions : transactions[k] = tx})

RowsHolding(tx) ==
    Cardinality({r \in ledger : [f \in DOMAIN tx |-> r[f]] = InsertParams(tx)})

\* C30 as stated: when an insert of a batch given to
\* bulk_create_transactions failed and the per-transaction fallback ran,
\* every converted transaction is in the ledger at most once, and
\* successful_migrations is the number of ledger rows inserted.
C30_ImportAtMostOnce ==
    (last.op = "migrate_csv_file" /\ last.fallback) =>
        /\ \A k \in DOMAIN last.transactions :
              RowsHolding(last.transactions[k])
                  <= Occurrences(last.transactions, last.transactions[k])
        /\ last.summary.successful_migrations = Cardinality(ledger)

(***************************************************************************)
(* OutcomeSpec: the calls of the operations layer on a store that may      *)
(* raise in any of them.                                                   *)
(***************************************************************************)
\* portfolio_operations.recalculate_all_positions; failing is the ticker
\* whose recalculation raises ("" for none).
OpRecalculateAllPositions(order, failing) ==
    LET out == RecalcInOrder(DB, order, failing)
    IN  /\ Commit(out.db)
        /\ UNCHANGED nextId
        /\ last' = Call("recalculate_all_positions", failing, 0,
                        RecalculateAllResponse(IF out.raised THEN "raise" ELSE "true"))

OutcomeCreateInputs ==
    {CreateTransactionInput(OpsTicker, ty, 10, 100, "2024-01-01") :
        ty \in {"BUY", "HOLD"}}

OutcomeUpdateFields ==
    {[NoFields EXCEPT !.quantity = Some(5)],
     [NoFields EXCEPT !.transaction_type = Some("HOLD")]}

StoreFailPoints == {"none", "store"}

OutcomeNext ==
    \/ /\ nextId <= MaxTx
       /\ \E input \in OutcomeCreateInputs, f \in FailPoints :
             OpCreateTransaction(input, f)
       /\ UNCHANGED <<issued, conns>>
    \/ /\ \E id \in TxIds, fields \in OutcomeUpdateFields, f \in FailPoints :
             OpUpdateTransaction(id, fields, f)
       /\ UNCHANGED <<issued, conns>>
    \/ /\ \E id \in TxIds, f \in FailPoints : OpDeleteTransaction(id, f)
       /\ UNCHANGED <<issued, conns>>
    \/ /\ \E f \in FailPoints : OpRecalculatePosition(OpsTicker, f)
       /\ UNCHANGED <<issued, conns>>
    \/ /\ \E order \in Orders(DistinctTickers(DB)),
             failing \in DistinctTickers(DB) \cup {""} :
             OpRecalculateAllPositions(order, failing)
       /\ UNCHANGED <<issued, conns>>
    \/ /\ \E p \in MarketPrices, f \in StoreFailPoints :
             OpUpdateMarketData(UpdateMarketDataInput(OpsTicker, p, None), f)
       /\ UNCHANGED <<issued, conns>>
    \/ /\ \E f \in StoreFailPoints : OpGetPerformanceMetrics(f)
       /\ UNCHANGED <<issued, conns>>
    \/ /\ \E f \in StoreFailPoints : OpGetTickerAnalysis(OpsTicker, f)
       /\ UNCHANGED <<issued, conns>>

OutcomeSpec == OpsInit /\ [][OutcomeNext]_vars

(***************************************************************************)
(* Properties of OutcomeSpec.                                              *)
(***************************************************************************)
\* The value is an OperationResponse: success, message and optional data.
IsOperationResponse(r) ==
    /\ DOMAIN r = {"success", "message", "data"}
    /\ r.success \in BOOLEAN
    /\ r.data = None \/ IsSome(r.data)

\* The messages of the except branches; in the code the text of the
\* exception follows the message.
ErrorMessages ==
    {"Error creating transaction", "Error updating transaction",
     "Error deleting transaction", "Error recalculating position",
     "Error recalculating all positions", "Error updating market data",
     "Error getting performance metrics", "Error getting ticker analysis"}

\* The caller was told of a failure that carries the error.
ErrorSurfaced ==
    /\ last.response.success = FALSE
    /\ last.response.message \in ErrorMessages
    /\ last.response.data = None

====
